---------------------------- MODULE Spec2Model ----------------------------
(***************************************************************************)
(* Conversational retrieval engine of the "second brain" backend:          *)
(*   - run_rag and its stages (app/chat/rag_pipeline.py),                  *)
(*   - run_agent and execute_tool (app/chat/agent_runner.py,               *)
(*     app/chat/agent_tools.py),                                           *)
(*   - _split_into_chunks (app/api/chat.py).                               *)
(* Each await point of the Python code is one step of the model; what the  *)
(* external collaborators (gateway, vector index, lexical store, graph     *)
(* store, tool handlers) answer is chosen nondeterministically.            *)
(*                                                                         *)
(* Strings are sequences of one-character strings; a fixed message of the  *)
(* program is a sequence holding its literal pieces.                       *)
(***************************************************************************)
EXTENDS Integers, Sequences, FiniteSets, TLC

VARIABLES
    \* ---- inputs of a turn ----
    query,          \* run_rag / run_agent argument `query`
    history,        \* argument `history` (None is modelled as << >>: both are falsy)
    top_k,          \* run_rag argument `top_k`
    null_content,   \* lexical store: ids of the entities whose content column is NULL
    \* ---- llm_service module state ----
    llm_available,  \* global _llm_available: "None" before the first probe, then
                    \* "True" or "False"
    \* ---- run_rag ----
    rag_pc,         \* position of run_rag: the await it is suspended at
    ctx,            \* the RAGContext
    vector_hits,    \* _hybrid_retrieve: what semantic_search returned
    meta_hits,      \* _hybrid_retrieve: what _metadata_search returned
    results,        \* _hybrid_retrieve: local list `results`
    fused,          \* `results` right after the sort of line 136, before the slice
    calls,          \* how many calls each collaborator has received in this turn
    source_outcome, \* _hybrid_retrieve: what each source call did ("none" before it)
    llm_reply,      \* what chat_completion did last for run_rag: [ok, content]
    \* ---- run_agent ----
    agent_pc,       \* position of run_agent
    messages,       \* the transcript sent to the gateway
    tool_log,       \* list of tool invocations
    final_answer,   \* local final_answer
    iteration,      \* loop variable of `for iteration in range(MAX_ITERATIONS)`
    pending,        \* msg["tool_calls"] still to execute in this iteration
    agent_result,   \* the dict run_agent returned (NoResult before)
    llm_calls,      \* number of client.post calls run_agent has made
    tool_runs,      \* number of execute_tool calls run_agent has made
    deviations,     \* how often the environment has left the plain path in this turn
    responses_ok,   \* every gateway reply so far was a model response: a final text
                    \* or a list of tool calls with string arguments
    handler_outcome, \* what the handler of the last executed call did: "ok", "raise",
                    \* "no_handler"; "none" before the first call
    reply,          \* the last answer of the gateway to run_agent: [kind, content]
    \* ---- _split_into_chunks ----
    chunk_pc,       \* "input" before the call, "split" after
    text,           \* argument `text`
    chunks,         \* returned list
    \* ---- api/chat.py: one request of /send or /send/stream ----
    endpoint,       \* "send" or "stream"
    mode,           \* req.mode
    message,        \* req.message
    conv_id,        \* local conv_id: req.conversation_id ("None" when not given),
                    \* then the id of the conversation created
    stored,         \* rows of the messages table for the request's conversation
    writes,         \* rows this request has inserted (conversations and messages)
    api_pc,         \* position of the request handler / of event_stream
    events,         \* the SSE events yielded so far
    cursor,         \* index of the running for loop of event_stream
    \* ---- turns running concurrently on the event loop ----
    turns,          \* per turn: where it is in run_rag's availability check, the
                    \* answer of its probe, what check_available returned to it
    \* ---- api/search.py: one request of GET /search ----
    search          \* position, parameters and locals of search()

rag_vars   == <<top_k, null_content, llm_available, rag_pc, ctx, vector_hits,
                meta_hits, results, fused, calls, source_outcome, llm_reply>>
agent_vars == <<agent_pc, messages, tool_log, final_answer, iteration, pending,
                agent_result, llm_calls, tool_runs, deviations,
                responses_ok, handler_outcome, reply>>
chunk_vars == <<chunk_pc, text, chunks>>
api_vars   == <<endpoint, mode, message, conv_id, stored, writes, api_pc, events,
                cursor>>
vars       == <<query, history, rag_vars, agent_vars, chunk_vars, api_vars, turns,
                search>>

-----------------------------------------------------------------------------
(* Bounds of the model *)

\* largest top_k a turn is started with
MaxTopK == 3
\* longest history a RAG turn is started with
MaxRagHistory == 1
\* how often, in one agent turn, the environment may leave the plain path (one
\* well-formed call of a registered tool that succeeds): an unknown tool name, a
\* malformed argument payload, a handler that raises, a further call in a response
MaxDeviations == 2
\* the same for an agent turn started by a request of the chat API
MaxChatDeviations == 1

\* entity ids held by the stores
Entities == {"e1", "e2", "e3"}
\* entities whose content column may be NULL in the lexical store
NullableEntities == {"e3"}

Queries == {<<"q">>, <<"i", "t", "?">>}

\* Python None where a string is expected: a text no string of the model equals
None == <<"<None>">>

Min(a, b) == IF a <= b THEN a ELSE b
Max(a, b) == IF a >= b THEN a ELSE b

\* The history a caller passes: alternating user / assistant turns, the i-th turn
\* holding i characters.
HistoryOf(n) ==
    [i \in 1..n |-> [role    |-> IF i % 2 = 1 THEN "user" ELSE "assistant",
                     content |-> [j \in 1..i |-> "h"]]]

\* Sequences without repetition over S, of length at most n (ranked lists keyed by
\* a primary key: entities.id in SQLite, entity_id in the Milvus collection).
RankedLists(S, n) ==
    UNION { { s \in [1..k -> S] : \A i, j \in 1..k : i # j => s[i] # s[j] }
            : k \in 0..Min(n, Cardinality(S)) }

-----------------------------------------------------------------------------
(* Python helpers *)

\* s[:n]
PySliceTo(s, n) ==
    IF n >= 0 THEN SubSeq(s, 1, Min(n, Len(s)))
              ELSE SubSeq(s, 1, Max(Len(s) + n, 0))

\* s[-n:] for n > 0
PyLast(s, n) == SubSeq(s, Max(Len(s) - n, 0) + 1, Len(s))

IsSpace(c) == c = " "

RECURSIVE LStrip(_)
LStrip(s) == IF s # << >> /\ IsSpace(Head(s)) THEN LStrip(Tail(s)) ELSE s

RECURSIVE RStrip(_)
RStrip(s) ==
    IF s # << >> /\ IsSpace(s[Len(s)]) THEN RStrip(SubSeq(s, 1, Len(s) - 1)) ELSE s

\* str.strip()
Strip(s) == RStrip(LStrip(s))

\* the chunk size send_message_stream passes to _split_into_chunks
CHUNK_SIZE == 20

Alphabet == <<"a", "b", "c">>

\* an answer of three chunks, the last one shorter than CHUNK_SIZE
LongAnswer == [i \in 1..(2 * CHUNK_SIZE + 1) |-> Alphabet[((i - 1) % 3) + 1]]

-----------------------------------------------------------------------------
(* rag_pipeline.py: hybrid retrieval *)

\* the RRF constant of `1.0 / (60 + i + 1)`
RRF_K == 60

\* Scores are the exact rationals num/den of the code's floating-point values.
RRFScore(i) == [num |-> 1, den |-> RRF_K + i + 1]

ScoreAdd(a, b) == [num |-> a.num * b.den + b.num * a.den, den |-> a.den * b.den]
ScoreEq(a, b)  == a.num * b.den = b.num * a.den
ScoreGt(a, b)  == a.num * b.den > b.num * a.den
ScoreGe(a, b)  == a.num * b.den >= b.num * a.den

\* what the stores hold for an entity
TitleOf(e)  == <<"t", e>>
SourceOf(e) == "manual"
LexicalContentOf(e, nulls) == IF e \in nulls THEN None ELSE <<"c", e>>

\* embedding_service.py line 208: row["content"][:500] if row["content"] else ""
VectorContentOf(e, nulls) == IF e \in nulls THEN << >> ELSE <<"c", e>>

\* semantic_search: the hits it returns, or that it raised (search_vectors and the
\* row lookup are outside its try).  outcome is what its collaborators did.
semantic_search(outcome, ranking, nulls) ==
    CASE outcome = "llm_unavailable" -> [raised |-> FALSE, hits |-> << >>]
      [] outcome = "embedding_failed" -> [raised |-> FALSE, hits |-> << >>]
      [] outcome = "raised"           -> [raised |-> TRUE,  hits |-> << >>]
      [] OTHER ->
           [raised |-> FALSE,
            hits   |-> [i \in 1..Len(ranking) |->
                          [entity_id |-> ranking[i], title |-> TitleOf(ranking[i]),
                           content |-> VectorContentOf(ranking[i], nulls),
                           source |-> SourceOf(ranking[i])]]]

\* _metadata_search: the rows of the SELECT ... LIMIT top_k
_metadata_search(outcome, ranking, nulls) ==
    IF outcome = "raised"
    THEN [raised |-> TRUE, hits |-> << >>]
    ELSE [raised |-> FALSE,
          hits   |-> [i \in 1..Len(ranking) |->
                        [id |-> ranking[i], title |-> TitleOf(ranking[i]),
                         content |-> LexicalContentOf(ranking[i], nulls),
                         source |-> SourceOf(ranking[i])]]]

\* lines 102-110: the vector loop
VectorLoop(hits) ==
    [i \in 1..Len(hits) |->
        [entity_id  |-> hits[i].entity_id,
         title      |-> hits[i].title,
         content    |-> hits[i].content,
         source     |-> hits[i].source,
         score      |-> RRFScore(i - 1),
         match_type |-> "vector"]]

\* lines 120-123: add to the first result with this entity_id
AddToFirst(res, eid, sc) ==
    LET js == { j \in 1..Len(res) : res[j].entity_id = eid } IN
    IF js = {} THEN res
    ELSE LET j == CHOOSE x \in js : \A y \in js : x <= y
         IN  [res EXCEPT ![j].score = ScoreAdd(@, sc)]

\* a faulty variant of MetaHit: the lexical hit replaces the vector hit's kind
MetaHit_first_lost(res, seen, hit, i) ==
    IF hit.id \in seen
    THEN LET js == { j \in 1..Len(res) : res[j].entity_id = hit.id }
             j  == CHOOSE x \in js : \A y \in js : x <= y
         IN  [res EXCEPT ![j].score = ScoreAdd(@, RRFScore(i)),
                         ![j].match_type = "metadata"]
    ELSE Append(res, [entity_id |-> hit.id, title |-> hit.title,
                      content |-> hit.content, source |-> hit.source,
                      score |-> RRFScore(i), match_type |-> "metadata"])

\* a faulty variant of MetaHit: no deduplication against the vector hits
MetaHit_no_dedup(res, seen, hit, i) ==
    Append(res, [entity_id |-> hit.id, title |-> hit.title,
                 content |-> hit.content, source |-> hit.source,
                 score |-> RRFScore(i), match_type |-> "metadata"])

\* lines 118-132: one pass of the metadata loop (i is zero-based)
MetaHit(res, seen, hit, i) ==
    IF hit.id \in seen
    THEN AddToFirst(res, hit.id, RRFScore(i))
    ELSE Append(res, [entity_id |-> hit.id, title |-> hit.title,
                      content |-> hit.content, source |-> hit.source,
                      score |-> RRFScore(i), match_type |-> "metadata"])

RECURSIVE MetaLoopFrom(_, _, _, _)
MetaLoopFrom(res, seen, hits, i) ==
    IF i >= Len(hits) THEN res
    ELSE MetaLoopFrom(MetaHit(res, seen, hits[i + 1], i), seen, hits, i + 1)

\* lines 116-132: `seen` is computed once, before the loop
MetaLoop(res, hits) ==
    MetaLoopFrom(res, { res[j].entity_id : j \in 1..Len(res) }, hits, 0)

\* a faulty variant of ComesBefore: an equal score also goes first, which is an
\* unstable sort
ComesBefore_or_equal(a, b) == ScoreGe(a.score, b.score)

\* a faulty variant of ComesBefore: ascending order (reverse=True forgotten)
ComesBefore_ascending(a, b) == ScoreGt(b.score, a.score)

\* The order of `results.sort(key=lambda x: x.score, reverse=True)`: a goes before
\* b when its score is strictly higher.
ComesBefore(a, b) == ScoreGt(a.score, b.score)

\* Insert x into the sorted s behind every element that does not come after it:
\* list.sort is stable, also with reverse=True.
RECURSIVE InsertStable(_, _)
InsertStable(s, x) ==
    IF s = << >> THEN <<x>>
    ELSE IF ComesBefore(x, Head(s)) THEN <<x>> \o s
         ELSE <<Head(s)>> \o InsertStable(Tail(s), x)

RECURSIVE SortFrom(_, _, _)
SortFrom(acc, s, i) ==
    IF i > Len(s) THEN acc ELSE SortFrom(InsertStable(acc, s[i]), s, i + 1)

\* line 136
SortByScore(s) == SortFrom(<< >>, s, 1)

\* lines 100-112: the vector stage; a failure of semantic_search is logged and
\* leaves `results` empty
VectorStage(r) == IF r.raised THEN << >> ELSE VectorLoop(r.hits)

\* a faulty variant of MetaStage: a failure of the lexical source empties `results`
MetaStage_failure_drops_all(res, r) == IF r.raised THEN << >> ELSE MetaLoop(res, r.hits)

\* lines 114-134: the lexical stage; a failure of _metadata_search is logged and
\* leaves `results` as the vector stage built it
MetaStage(res, r) == IF r.raised THEN res ELSE MetaLoop(res, r.hits)

\* a faulty variant of Truncate: the slice of line 137 forgotten
Truncate_none(s, k) == s

\* line 137: results[:top_k]
Truncate(s, k) == PySliceTo(s, k)

-----------------------------------------------------------------------------
(* llm_service.py *)

\* check_available (lines 52-61): what it stores in _llm_available and returns
check_available(probe) == IF probe = "200" THEN "True" ELSE "False"

Probes == {"200", "503", "exception"}

-----------------------------------------------------------------------------
(* rag_pipeline.py: run_rag *)

\* line 48: the fixed answer when the gateway is not available
LLM_UNAVAILABLE_ANSWER == <<"LLM service unavailable, cannot generate an answer">>
\* line 231: f"... {e}"
GENERATION_FAILED_ANSWER == <<"answer generation failed: ", "LLM API unavailable">>
\* line 180: header and lines of the graph context
GRAPH_CONTEXT == <<"graph relations:", "- e">>

\* what the gateway may answer to the rewrite prompt
RewriteReplies ==
    { [ok |-> FALSE, content |-> << >>] } \cup
    { [ok |-> TRUE, content |-> c] : c \in { << >>, <<" ">>, <<" ", "r", " ">>, <<"r">>, None } }

\* what the gateway may answer to the answer prompt
AnswerReplies ==
    { [ok |-> FALSE, content |-> << >>] } \cup
    { [ok |-> TRUE, content |-> c] : c \in { << >>, <<"a", "n", "s">>, LongAnswer, None } }

\* RAGContext(query=query, rewritten_query=query), line 45
NewContext(q) ==
    [query |-> q, rewritten_query |-> q, results |-> << >>, graph_context |-> << >>,
     answer |-> << >>, sources |-> << >>]

\* a faulty variant of ReturnsEarly: the availability check is ignored
ReturnsEarly_never(avail) == FALSE

\* line 47: `if not await check_available()`
ReturnsEarly(avail) == avail # "True"

\* a faulty variant of NeedsRewrite: the rewriter is called whatever the history
NeedsRewrite_always(hist) == TRUE

\* line 51: `if history`
NeedsRewrite(hist) == hist # << >>

\* a faulty variant of _rewrite_query: a blank response is returned as it is
_rewrite_query_no_fallback(q, r) ==
    IF ~r.ok \/ r.content = None THEN q ELSE Strip(r.content)

\* _rewrite_query, lines 74-93: None.strip() raises AttributeError, which the
\* except clause catches like a gateway failure
_rewrite_query(q, r) ==
    IF ~r.ok \/ r.content = None THEN q
    ELSE LET rewritten == Strip(r.content)
         IN  IF rewritten # << >> THEN rewritten ELSE q

\* _graph_retrieve, lines 154-183
_graph_retrieve(outcome) == IF outcome = "rows" THEN GRAPH_CONTEXT ELSE << >>

GraphOutcomes == {"unavailable", "raised", "no_rows", "rows"}

\* a faulty variant of SourcesOf: the sources are numbered from 0
SourcesOf_zero_based(res) ==
    [i \in 1..Len(res) |->
        [index |-> i - 1, entity_id |-> res[i].entity_id,
         title |-> res[i].title, source |-> res[i].source]]

\* _generate_answer, lines 191-198
SourcesOf(res) ==
    [i \in 1..Len(res) |->
        [index |-> i, entity_id |-> res[i].entity_id,
         title |-> res[i].title, source |-> res[i].source]]

\* line 192: r.content[:600] raises TypeError when content is None
ContextRaises(res) == \E i \in 1..Len(res) : res[i].content = None

\* a faulty variant of _generate_answer: the except branch returns no sources
_generate_answer_drops_sources(c, r) ==
    [answer  |-> IF r.ok THEN r.content ELSE GENERATION_FAILED_ANSWER,
     sources |-> IF r.ok THEN SourcesOf(c.results) ELSE << >>]

\* _generate_answer, lines 219-231
_generate_answer(c, r) ==
    [answer  |-> IF r.ok THEN r.content ELSE GENERATION_FAILED_ANSWER,
     sources |-> SourcesOf(c.results)]

NoCalls ==
    [available |-> 0, rewrite |-> 0, vector |-> 0, lexical |-> 0, graph |-> 0,
     generate |-> 0]

NoOutcome == [vector |-> "none", lexical |-> "none"]
NoReply   == [ok |-> FALSE, content |-> << >>]

\* run_rag, lines 47-52: the availability probe answers
RagCheckAvailable ==
    /\ rag_pc = "check_available"
    /\ \E probe \in Probes :
         LET avail == check_available(probe) IN
         /\ llm_available' = avail
         /\ IF ReturnsEarly(avail)
            THEN /\ ctx' = [ctx EXCEPT !.answer = LLM_UNAVAILABLE_ANSWER]
                 /\ rag_pc' = "returned"
            ELSE /\ ctx' = ctx
                 /\ rag_pc' = IF NeedsRewrite(history) THEN "rewrite_query"
                                                       ELSE "vector_search"
    /\ calls' = [calls EXCEPT !.available = @ + 1]
    /\ UNCHANGED <<query, history, top_k, null_content, vector_hits, meta_hits,
                   results, fused, source_outcome, llm_reply, agent_vars,
                   chunk_vars, api_vars, turns, search>>

\* run_rag, line 52: the gateway answers the rewrite prompt
RagRewriteQuery ==
    /\ rag_pc = "rewrite_query"
    /\ \E r \in RewriteReplies :
         /\ ctx' = [ctx EXCEPT !.rewritten_query = _rewrite_query(query, r)]
         /\ llm_reply' = r
    /\ calls' = [calls EXCEPT !.rewrite = @ + 1]
    /\ rag_pc' = "vector_search"
    /\ UNCHANGED <<query, history, top_k, null_content, llm_available, vector_hits,
                   meta_hits, results, fused, source_outcome, agent_vars,
                   chunk_vars, api_vars, turns, search>>

\* _hybrid_retrieve, lines 100-112: semantic_search(query, top_k * 2) answers
RagVectorSearch ==
    /\ rag_pc = "vector_search"
    /\ \E outcome \in {"llm_unavailable", "embedding_failed", "raised", "ok"} :
       \E ranking \in IF outcome = "ok" THEN RankedLists(Entities, top_k * 2)
                                        ELSE { << >> } :
         LET r == semantic_search(outcome, ranking, null_content) IN
         /\ vector_hits' = r.hits
         /\ results' = VectorStage(r)
         /\ llm_available' = IF outcome = "llm_unavailable" THEN "False" ELSE "True"
         /\ source_outcome' = [source_outcome EXCEPT !.vector = outcome]
    /\ calls' = [calls EXCEPT !.vector = @ + 1]
    /\ rag_pc' = "metadata_search"
    /\ UNCHANGED <<query, history, top_k, null_content, ctx, meta_hits, fused,
                   llm_reply, agent_vars, chunk_vars, api_vars, turns, search>>

\* _hybrid_retrieve, lines 114-137, and run_rag line 54: _metadata_search(query,
\* top_k) answers; the merge, the sort and the slice follow without an await
RagMetadataSearch ==
    /\ rag_pc = "metadata_search"
    /\ \E outcome \in {"raised", "ok"} :
       \E ranking \in IF outcome = "ok" THEN RankedLists(Entities, top_k)
                                        ELSE { << >> } :
         LET r      == _metadata_search(outcome, ranking, null_content)
             merged == MetaStage(results, r)
             sorted == SortByScore(merged)
         IN  /\ meta_hits' = r.hits
             /\ results' = sorted
             /\ fused' = sorted
             /\ ctx' = [ctx EXCEPT !.results = Truncate(sorted, top_k)]
             /\ source_outcome' = [source_outcome EXCEPT !.lexical = outcome]
    /\ calls' = [calls EXCEPT !.lexical = @ + 1]
    /\ rag_pc' = "graph_retrieve"
    /\ UNCHANGED <<query, history, top_k, null_content, llm_available, vector_hits,
                   llm_reply, agent_vars, chunk_vars, api_vars, turns, search>>

\* run_rag, lines 56-57
RagGraphRetrieve ==
    /\ rag_pc = "graph_retrieve"
    /\ \E outcome \in GraphOutcomes :
         ctx' = [ctx EXCEPT !.graph_context = _graph_retrieve(outcome)]
    /\ calls' = [calls EXCEPT !.graph = @ + 1]
    /\ rag_pc' = "generate_answer"
    /\ UNCHANGED <<query, history, top_k, null_content, llm_available, vector_hits,
                   meta_hits, results, fused, source_outcome, llm_reply, agent_vars,
                   chunk_vars, api_vars, turns, search>>

\* run_rag, lines 59-63: the prompt is built and the gateway answers
RagGenerateAnswer ==
    /\ rag_pc = "generate_answer"
    /\ IF ContextRaises(ctx.results)
       THEN /\ rag_pc' = "raised"
            /\ UNCHANGED <<ctx, calls, llm_reply>>
       ELSE /\ \E r \in AnswerReplies :
                 LET g == _generate_answer(ctx, r)
                 IN  /\ ctx' = [ctx EXCEPT !.answer = g.answer, !.sources = g.sources]
                     /\ llm_reply' = r
            /\ calls' = [calls EXCEPT !.generate = @ + 1]
            /\ rag_pc' = "returned"
    /\ UNCHANGED <<query, history, top_k, null_content, llm_available, vector_hits,
                   meta_hits, results, fused, source_outcome, agent_vars,
                   chunk_vars, api_vars, turns, search>>

-----------------------------------------------------------------------------
(* agent_tools.py, agent_runner.py: run_agent *)

MAX_ITERATIONS == 8
\* history[-10:]
HISTORY_WINDOW == 10
\* result_str[:500]
PREVIEW_LEN == 500

AGENT_SYSTEM_PROMPT == <<"AGENT_SYSTEM_PROMPT">>
\* line 126
EXHAUSTED_ANSWER == <<"Agent reached the maximum number of iterations, please simplify the question">>
\* line 88: f"... {e}"
AGENT_LLM_FAILED_ANSWER == <<"Agent LLM call failed: ", "e">>

\* names the model may request; _HANDLERS holds the first
ToolNames == {"search_knowledge", "no_such_tool"}
HANDLERS == {"search_knowledge"}
\* argument payloads: a JSON object, a string that is not JSON, a value that is
\* not a string
ArgPayloads == {"{\"query\": \"x\"}", "{\"query\": ", "not_a_string"}
WellFormedArgs == "{\"query\": \"x\"}"

\* histories an agent turn is started with
AgentHistories == { HistoryOf(0), HistoryOf(2), HistoryOf(HISTORY_WINDOW + 2) }

Msg(role, content) ==
    [role |-> role, content |-> content, tool_calls |-> << >>, tool_call_id |-> << >>]

\* a faulty variant of SeedTranscript: the first turns of the history are taken
SeedTranscript_oldest_turns(q, hist) ==
    <<Msg("system", AGENT_SYSTEM_PROMPT)>>
    \o (IF hist # << >>
        THEN LET recent == PySliceTo(hist, HISTORY_WINDOW)
             IN  [i \in 1..Len(recent) |-> Msg(recent[i].role, recent[i].content)]
        ELSE << >>)
    \o <<Msg("user", q)>>

\* lines 55-63
SeedTranscript(q, hist) ==
    <<Msg("system", AGENT_SYSTEM_PROMPT)>>
    \o (IF hist # << >>
        THEN LET recent == PyLast(hist, HISTORY_WINDOW)
             IN  [i \in 1..Len(recent) |-> Msg(recent[i].role, recent[i].content)]
        ELSE << >>)
    \o <<Msg("user", q)>>

\* json.loads(tc["function"]["arguments"]), lines 100-103: a TypeError (the payload
\* is not a string) is not a JSONDecodeError and leaves run_agent
ParseArguments(payload) ==
    CASE payload = WellFormedArgs  -> [raised |-> FALSE, args |-> [query |-> "x"]]
      [] payload = "not_a_string"  -> [raised |-> TRUE,  args |-> << >>]
      [] OTHER                     -> [raised |-> FALSE, args |-> << >>]

UnknownToolError(name) == <<"{\"error\": ", "unknown tool: ", name, "}">>
HandlerError           == <<"{\"error\": ", "str(e)", "}">>
HandlerResult          == <<"{\"results\": ", "[]", "}">>
\* a handler result longer than the preview of the tool log
LongResult             == [i \in 1..(PREVIEW_LEN + 1) |-> IF i = 1 THEN "{" ELSE "r"]

IsErrorPayload(s) == Len(s) >= 1 /\ s[1] = "{\"error\": "

\* a faulty variant of execute_tool: the exception of a handler is not caught
execute_tool_propagates(name, arguments, outcome) ==
    IF name \notin HANDLERS
    THEN [raised |-> FALSE, invoked |-> FALSE, result |-> UnknownToolError(name)]
    ELSE IF outcome = "raise" THEN [raised |-> TRUE, invoked |-> TRUE, result |-> << >>]
         ELSE [raised |-> FALSE, invoked |-> TRUE,
               result |-> IF outcome = "long" THEN LongResult ELSE HandlerResult]

\* a faulty variant of execute_tool: an unknown name is looked up with _HANDLERS[name]
\* outside the try, so that the KeyError leaves execute_tool
execute_tool_unknown_raises(name, arguments, outcome) ==
    IF name \notin HANDLERS
    THEN [raised |-> TRUE, invoked |-> FALSE, result |-> << >>]
    ELSE IF outcome = "raise"
         THEN [raised |-> FALSE, invoked |-> TRUE, result |-> HandlerError]
         ELSE [raised |-> FALSE, invoked |-> TRUE,
               result |-> IF outcome = "long" THEN LongResult ELSE HandlerResult]

\* execute_tool, agent_tools.py lines 259-269: outcome is what the handler did;
\* `invoked` tells whether a handler of the registry was called
execute_tool(name, arguments, outcome) ==
    IF name \notin HANDLERS
    THEN [raised |-> FALSE, invoked |-> FALSE, result |-> UnknownToolError(name)]
    ELSE IF outcome = "raise"
         THEN [raised |-> FALSE, invoked |-> TRUE, result |-> HandlerError]
         ELSE [raised |-> FALSE, invoked |-> TRUE,
               result |-> IF outcome = "long" THEN LongResult ELSE HandlerResult]

\* a faulty variant of LoopExhausted: one iteration too many
LoopExhausted_off_by_one(it) == it > MAX_ITERATIONS

\* line 72: range(MAX_ITERATIONS) is used up
LoopExhausted(it) == it >= MAX_ITERATIONS

\* line 126: final_answer or "<the fixed message>"
ExhaustedAnswerOf(fa) == IF fa # << >> THEN fa ELSE EXHAUSTED_ANSWER

\* a faulty variant of ResultPreview: the result is logged in full
ResultPreview_untruncated(result_str) == result_str

\* line 112: result_str[:500]
ResultPreview(result_str) == PySliceTo(result_str, PREVIEW_LEN)

\* lines 128-132
ReturnValue(answer, log) ==
    [answer |-> answer, tool_calls |-> log, iterations |-> Len(log)]

\* what leaving the plain path costs
NameCost(n) == IF n \in HANDLERS THEN 0 ELSE 1
ArgsCost(a) == IF a = WellFormedArgs THEN 0 ELSE 1

RECURSIVE ListCost(_)
ListCost(tcs) ==
    IF tcs = << >> THEN 0
    ELSE NameCost(Head(tcs).function.name) + ArgsCost(Head(tcs).function.arguments)
         + ListCost(Tail(tcs))

\* the k-th tool call of the response of iteration `it`
ToolCall(it, k, name, arguments) ==
    [id |-> <<it, k>>, function |-> [name |-> name, arguments |-> arguments]]

\* the non-empty tool-call lists a response of iteration `it` may carry with
\* `budget` left
ToolCallLists(it, budget) ==
    { tcs \in UNION { { [k \in 1..n |-> ToolCall(it, k, f[k][1], f[k][2])]
                        : f \in [1..n -> ToolNames \X ArgPayloads] }
                      : n \in 1..(1 + budget) }
        : (Len(tcs) - 1) + ListCost(tcs) <= budget }

\* final texts of the model: empty, a short text, a text of several chunks, null
FinalContents == { << >>, <<"o", "k">>, LongAnswer, None }

NoAgentReply == [kind |-> "none", content |-> << >>]

\* line 72-83: the loop head; either the for loop is used up (line 126) or the
\* next completion request is sent
AgentLoopHead ==
    /\ agent_pc = "loop_head"
    /\ IF LoopExhausted(iteration)
       THEN LET answer == ExhaustedAnswerOf(final_answer)
            IN  /\ final_answer' = answer
                /\ agent_result' = ReturnValue(answer, tool_log)
                /\ agent_pc' = "exhausted"
                /\ UNCHANGED llm_calls
       ELSE /\ llm_calls' = llm_calls + 1
            /\ agent_pc' = "await_llm"
            /\ UNCHANGED <<final_answer, agent_result>>
    /\ UNCHANGED <<query, history, messages, tool_log, iteration, pending, tool_runs,
                   deviations, responses_ok, handler_outcome, reply, rag_vars,
                   chunk_vars, api_vars, turns, search>>

\* a faulty variant of LLMRequestFails: the try of lines 82-85 has no except
LLMRequestFails_raises ==
    /\ agent_pc' = "raised"
    /\ responses_ok' = FALSE
    /\ reply' = [kind |-> "failed", content |-> << >>]
    /\ UNCHANGED <<messages, pending, deviations, final_answer, agent_result>>

\* lines 86-89: the completion request fails (status, transport, timeout=60.0)
LLMRequestFails ==
    /\ final_answer' = AGENT_LLM_FAILED_ANSWER
    /\ agent_result' = ReturnValue(AGENT_LLM_FAILED_ANSWER, tool_log)
    /\ agent_pc' = "llm_failed"
    /\ responses_ok' = FALSE
    /\ reply' = [kind |-> "failed", content |-> << >>]
    /\ UNCHANGED <<messages, pending, deviations>>

\* line 91: a 200 body without choices raises out of run_agent
LLMBodyWithoutChoices ==
    /\ agent_pc' = "raised"
    /\ responses_ok' = FALSE
    /\ reply' = [kind |-> "no_choices", content |-> << >>]
    /\ UNCHANGED <<messages, pending, deviations, final_answer, agent_result>>

\* a faulty variant of LLMFinalMessage: the `break` of line 124 forgotten
LLMFinalMessage_continues(content) ==
    /\ final_answer' = content
    /\ agent_result' = agent_result
    /\ agent_pc' = "loop_head"
    /\ reply' = [kind |-> "final", content |-> content]
    /\ UNCHANGED <<messages, pending, deviations, responses_ok>>

\* lines 123-124: a message without tool calls ends the loop
LLMFinalMessage(content) ==
    /\ final_answer' = content
    /\ agent_result' = ReturnValue(content, tool_log)
    /\ agent_pc' = "done"
    /\ reply' = [kind |-> "final", content |-> content]
    /\ UNCHANGED <<messages, pending, deviations, responses_ok>>

\* a faulty variant of LLMToolCalls: the assistant message is not appended
LLMToolCalls_not_appended(tcs) ==
    /\ messages' = messages
    /\ pending' = tcs
    /\ responses_ok' =
           (responses_ok /\ \A k \in 1..Len(tcs) :
                               tcs[k].function.arguments # "not_a_string")
    /\ reply' = [kind |-> "tool_calls", content |-> None]
    /\ agent_pc' = "await_tool"
    /\ UNCHANGED <<final_answer, agent_result>>

\* lines 95-98: a message with tool calls is appended and its calls are taken up
LLMToolCalls(tcs) ==
    /\ messages' = Append(messages,
                          [role |-> "assistant", content |-> None,
                           tool_calls |-> tcs, tool_call_id |-> << >>])
    /\ pending' = tcs
    /\ responses_ok' =
           (responses_ok /\ \A k \in 1..Len(tcs) :
                               tcs[k].function.arguments # "not_a_string")
    /\ reply' = [kind |-> "tool_calls", content |-> None]
    /\ agent_pc' = "await_tool"
    /\ UNCHANGED <<final_answer, agent_result>>

\* lines 83-96 and 123-124: the gateway answers the completion request
AgentLLMResponds ==
    /\ agent_pc = "await_llm"
    /\ \/ LLMRequestFails
       \/ LLMBodyWithoutChoices
       \/ \E content \in FinalContents : LLMFinalMessage(content)
       \/ \E tcs \in ToolCallLists(iteration, MaxDeviations - deviations) :
             /\ LLMToolCalls(tcs)
             /\ deviations' = deviations + (Len(tcs) - 1) + ListCost(tcs)
    /\ UNCHANGED <<query, history, tool_log, iteration, llm_calls, tool_runs,
                   handler_outcome, rag_vars, chunk_vars, api_vars, turns, search>>

\* lines 98-121: the next requested call is parsed and executed, its result logged
\* and appended; after the last call of the response the loop continues.
\* `outcomes` is what the handler may do.
ExecuteToolStep(outcomes) ==
    /\ agent_pc = "await_tool"
    /\ pending # << >>
    /\ LET tc      == Head(pending)
           fn_name == tc.function.name
           parsed  == ParseArguments(tc.function.arguments)
       IN  IF parsed.raised
           THEN /\ agent_pc' = "raised"
                /\ UNCHANGED <<messages, tool_log, iteration, pending, tool_runs,
                               deviations, handler_outcome>>
           ELSE \E outcome \in outcomes :
                  /\ outcome \in {"raise", "long"} =>
                         (fn_name \in HANDLERS /\ deviations < MaxDeviations)
                  /\ outcome = "never_returns" => fn_name \in HANDLERS
                  /\ LET r == execute_tool(fn_name, parsed.args, outcome) IN
                     /\ handler_outcome' = IF r.invoked THEN outcome ELSE "no_handler"
                     /\ IF outcome = "never_returns"
                        THEN \* line 106 is awaited without a timeout
                             /\ agent_pc' = "blocked_in_tool"
                             /\ tool_runs' = tool_runs + 1
                             /\ UNCHANGED <<messages, tool_log, iteration, pending,
                                            deviations>>
                        ELSE IF r.raised
                        THEN /\ agent_pc' = "raised"
                             /\ tool_runs' = tool_runs + 1
                             /\ deviations' = deviations + 1
                             /\ UNCHANGED <<messages, tool_log, iteration, pending>>
                        ELSE /\ tool_runs' = tool_runs + 1
                             /\ deviations' = IF outcome \in {"raise", "long"}
                                              THEN deviations + 1 ELSE deviations
                             /\ tool_log' = Append(tool_log,
                                    [iteration      |-> iteration,
                                     tool           |-> fn_name,
                                     arguments      |-> parsed.args,
                                     result_preview |-> ResultPreview(r.result)])
                             /\ messages' = Append(messages,
                                    [role |-> "tool", content |-> r.result,
                                     tool_calls |-> << >>, tool_call_id |-> tc.id])
                             /\ pending' = Tail(pending)
                             /\ IF Tail(pending) = << >>
                                THEN /\ iteration' = iteration + 1
                                     /\ agent_pc' = "loop_head"
                                ELSE /\ iteration' = iteration
                                     /\ agent_pc' = "await_tool"
    /\ UNCHANGED <<query, history, final_answer, agent_result, llm_calls,
                   responses_ok, reply, rag_vars, chunk_vars, api_vars, turns, search>>

\* the handlers of the registry return, with a short or a long result, or raise
AgentExecuteTool == ExecuteToolStep({"ok", "long", "raise"})

\* the handlers of the registry return, raise or never answer: execute_tool awaits
\* handler(arguments) (agent_tools.py line 265) and run_agent awaits execute_tool
\* (line 106) without a timeout
AgentExecuteToolUnresponsive ==
    ExecuteToolStep({"ok", "long", "raise", "never_returns"})

\* a name _HANDLERS does not hold
UNKNOWN_TOOL == "no_such_tool"

\* what a model that insists on UNKNOWN_TOOL sends in iteration `it`: one call with
\* a JSON object or with a string that is not JSON, or two calls
UnknownToolCallLists(it) ==
    { <<ToolCall(it, 1, UNKNOWN_TOOL, a)>> : a \in ArgPayloads \ {"not_a_string"} }
    \cup { <<ToolCall(it, 1, UNKNOWN_TOOL, WellFormedArgs),
             ToolCall(it, 2, UNKNOWN_TOOL, WellFormedArgs)>> }

\* lines 83-98 with a gateway whose every response requests UNKNOWN_TOOL
AgentLLMRequestsUnknownTool ==
    /\ agent_pc = "await_llm"
    /\ \E tcs \in UnknownToolCallLists(iteration) : LLMToolCalls(tcs)
    /\ UNCHANGED <<query, history, tool_log, iteration, llm_calls, tool_runs,
                   deviations, handler_outcome, rag_vars, chunk_vars, api_vars, turns, search>>

-----------------------------------------------------------------------------
(* api/chat.py: _split_into_chunks *)

\* longest answer that is split
MaxTextLen == 45

\* the answers that are split: of every length up to MaxTextLen, with period 1, 2, 3
Texts ==
    { [i \in 1..n |-> Alphabet[((i - 1) % p) + 1]] : n \in 0..MaxTextLen, p \in 1..3 }

\* a faulty variant of _split_into_chunks: a last chunk shorter than `size` is dropped
split_drops_short_chunk(t, size) ==
    IF t = << >> THEN << << >> >>
    ELSE [k \in 1..(Len(t) \div size) |-> SubSeq(t, (k - 1) * size + 1, k * size)]

\* line 186: [text[i:i+size] for i in range(0, len(text), size)] if text else [""]
\* (`if text` is false for "" and for None)
_split_into_chunks(t, size) ==
    IF t = << >> \/ t = None THEN << << >> >>
    ELSE [k \in 1..((Len(t) + size - 1) \div size) |->
            SubSeq(t, (k - 1) * size + 1, Min(k * size, Len(t)))]

\* "".join(chunks)
RECURSIVE Join(_)
Join(cs) == IF cs = << >> THEN << >> ELSE Head(cs) \o Join(Tail(cs))

SplitIntoChunks ==
    /\ chunk_pc = "input"
    /\ chunks' = _split_into_chunks(text, CHUNK_SIZE)
    /\ chunk_pc' = "split"
    /\ UNCHANGED <<query, history, text, rag_vars, agent_vars, api_vars, turns, search>>

-----------------------------------------------------------------------------
(* api/chat.py: send_message and send_message_stream *)

\* run_agent has returned a result; it has returned or raised
AgentReturned   == agent_pc \in {"done", "exhausted", "llm_failed"}
AgentTerminated == AgentReturned \/ agent_pc = "raised"

\* run_rag's default top_k, which the chat API does not override
DEFAULT_TOP_K == 5
\* get_conversation_messages(conv_id, limit=20)
HISTORY_LIMIT == 20

ChatMessages == { << >>, <<"q">> }
DbOutcomes   == {"ok", "readonly", "error"}

\* add_message (conversation.py lines 71-107) on the rows of the conversation:
\* the INSERT fails when the database is not writable and when content is None
\* (messages.content is NOT NULL)
add_message(rows, role, content, db) ==
    IF db # "ok" THEN [raised |-> TRUE, readonly |-> db = "readonly", rows |-> rows]
    ELSE IF content = None THEN [raised |-> TRUE, readonly |-> FALSE, rows |-> rows]
    ELSE [raised |-> FALSE, readonly |-> FALSE,
          rows |-> Append(rows, [role |-> role, content |-> content])]

\* lines 71-72 and 121-122: the first HISTORY_LIMIT rows without the last one
HistoryDicts(rows) == PySliceTo(PySliceTo(rows, HISTORY_LIMIT), -1)

\* _raise_if_readonly and the re-raise: the status the caller gets
FailureStatus(readonly) == IF readonly THEN "http_503" ELSE "http_500"

\* lines 62-69 and 112-119: the conversation is created when the request names
\* none, and the user message is stored
ChatAcceptRequest ==
    /\ api_pc = "received"
    /\ \E db \in DbOutcomes, fails_at_once \in BOOLEAN :
         LET created == conv_id = "None"
             r       == add_message(stored, "user", message, db)
             \* create_conversation went through before add_message failed
             partial == created /\ ~fails_at_once
         IN  IF r.raised
             THEN /\ api_pc' = FailureStatus(r.readonly)
                  /\ conv_id' = IF partial THEN "c1" ELSE conv_id
                  /\ writes' = writes + (IF partial THEN 1 ELSE 0)
                  /\ UNCHANGED stored
             ELSE /\ conv_id' = "c1"
                  /\ stored' = r.rows
                  /\ writes' = writes + (IF created THEN 2 ELSE 1)
                  /\ api_pc' = IF endpoint = "stream" THEN "stream_start"
                                                      ELSE "call_turn"
    /\ UNCHANGED <<query, history, turns, search, endpoint, mode, message, events, cursor,
                   rag_vars, agent_vars, chunk_vars>>

\* line 125: event_stream yields the start event
StreamStart ==
    /\ api_pc = "stream_start"
    /\ events' = Append(events, [type |-> "start", tool |-> "", args |-> << >>,
                                 content |-> << >>])
    /\ api_pc' = "call_turn"
    /\ UNCHANGED <<query, history, turns, search, endpoint, mode, message, conv_id, stored, writes,
                   cursor, rag_vars, agent_vars, chunk_vars>>

\* lines 74-76, 92-93, 127-128, 141: run_agent or run_rag is called with the
\* message and the history of the conversation
ChatCallTurn ==
    /\ api_pc = "call_turn"
    /\ query' = message
    /\ history' = HistoryDicts(stored)
    /\ IF mode = "agent"
       THEN /\ agent_pc' = "loop_head"
            /\ messages' = SeedTranscript(message, HistoryDicts(stored))
            /\ deviations' = MaxDeviations - Min(MaxChatDeviations, MaxDeviations)
            /\ UNCHANGED <<tool_log, final_answer, iteration, pending, agent_result,
                           llm_calls, tool_runs, responses_ok, handler_outcome, reply,
                           rag_vars>>
       ELSE /\ rag_pc' = "check_available"
            /\ ctx' = NewContext(message)
            /\ top_k' = DEFAULT_TOP_K
            /\ UNCHANGED <<null_content, llm_available, vector_hits, meta_hits,
                           results, fused, calls, source_outcome, llm_reply,
                           agent_vars>>
    /\ api_pc' = "in_turn"
    /\ UNCHANGED <<turns, search, endpoint, mode, message, conv_id, stored, writes, events, cursor,
                   chunk_vars>>

TurnRaised   == IF mode = "agent" THEN agent_pc = "raised" ELSE rag_pc = "raised"
TurnReturned == IF mode = "agent" THEN AgentReturned ELSE rag_pc = "returned"
TurnAnswer   == IF mode = "agent" THEN agent_result.answer ELSE ctx.answer

\* send_message, lines 77-106: the turn has ended; the answer is stored and
\* returned, or the failure is turned into a status
ChatSendRespond ==
    /\ api_pc = "in_turn" /\ endpoint = "send"
    /\ \/ /\ TurnRaised
          /\ api_pc' = "http_500"
          /\ UNCHANGED <<stored, writes>>
       \/ /\ TurnReturned
          /\ \E db \in DbOutcomes :
               LET r == add_message(stored, "assistant", TurnAnswer, db) IN
               IF r.raised
               THEN /\ api_pc' = FailureStatus(r.readonly)
                    /\ UNCHANGED <<stored, writes>>
               ELSE /\ stored' = r.rows
                    /\ writes' = writes + 1
                    /\ api_pc' = "responded"
    /\ UNCHANGED <<query, history, turns, search, endpoint, mode, message, conv_id, events, cursor,
                   rag_vars, agent_vars, chunk_vars>>

\* a faulty variant of StageAfter: the token loop is placed before the loop over
\* the tool calls
StageAfter_tokens_first(stage, md) ==
    CASE stage = "in_turn"      -> "tokens"
      [] stage = "tokens"       -> IF md = "agent" THEN "tool_calls" ELSE "persist"
      [] stage = "tool_calls"   -> "persist"
      [] stage = "persist"      -> IF md = "agent" THEN "emit_done" ELSE "emit_sources"
      [] stage = "emit_sources" -> "emit_done"
      [] OTHER                  -> "closed"

\* event_stream, lines 127-151: the statement that follows `stage` in mode md
StageAfter(stage, md) ==
    CASE stage = "in_turn"      -> IF md = "agent" THEN "tool_calls" ELSE "tokens"
      [] stage = "tool_calls"   -> "tokens"
      [] stage = "tokens"       -> "persist"
      [] stage = "persist"      -> IF md = "agent" THEN "emit_done" ELSE "emit_sources"
      [] stage = "emit_sources" -> "emit_done"
      [] OTHER                  -> "closed"

\* the turn raised: the exception leaves event_stream and the stream ends
StreamTurnRaised ==
    /\ api_pc = "in_turn" /\ endpoint = "stream" /\ TurnRaised
    /\ api_pc' = "aborted"
    /\ UNCHANGED <<query, history, turns, search, endpoint, mode, message, conv_id, stored, writes,
                   events, cursor, rag_vars, agent_vars, chunk_vars>>

\* the turn has returned, or a for loop of event_stream has run out: control goes
\* to the next statement; _split_into_chunks is called before the token loop
StreamAdvance ==
    /\ endpoint = "stream"
    /\ \/ api_pc = "in_turn" /\ TurnReturned
       \/ api_pc = "tool_calls" /\ cursor = Len(agent_result.tool_calls)
       \/ api_pc = "tokens" /\ cursor = Len(chunks)
    /\ api_pc' = StageAfter(api_pc, mode)
    /\ cursor' = 0
    /\ IF StageAfter(api_pc, mode) = "tokens"
       THEN /\ text' = TurnAnswer
            /\ chunks' = _split_into_chunks(TurnAnswer, CHUNK_SIZE)
       ELSE UNCHANGED <<text, chunks>>
    /\ UNCHANGED <<query, history, turns, search, endpoint, mode, message, conv_id, stored, writes,
                   events, chunk_pc, rag_vars, agent_vars>>

\* lines 129-130: the next tool_call event
StreamEmitToolCall ==
    /\ api_pc = "tool_calls" /\ cursor < Len(agent_result.tool_calls)
    /\ LET tc == agent_result.tool_calls[cursor + 1] IN
       events' = Append(events, [type |-> "tool_call", tool |-> tc.tool,
                                 args |-> tc.arguments, content |-> << >>])
    /\ cursor' = cursor + 1
    /\ UNCHANGED <<query, history, turns, search, endpoint, mode, message, conv_id, stored, writes,
                   api_pc, rag_vars, agent_vars, chunk_vars>>

\* lines 132-133 and 143-144: the next token event
StreamEmitToken ==
    /\ api_pc = "tokens" /\ cursor < Len(chunks)
    /\ events' = Append(events, [type |-> "token", tool |-> "", args |-> << >>,
                                 content |-> chunks[cursor + 1]])
    /\ cursor' = cursor + 1
    /\ UNCHANGED <<query, history, turns, search, endpoint, mode, message, conv_id, stored, writes,
                   api_pc, rag_vars, agent_vars, chunk_vars>>

\* lines 134-138 and 145-149: the answer is stored; a failure leaves event_stream
StreamPersist ==
    /\ api_pc = "persist"
    /\ \E db \in DbOutcomes :
         LET r == add_message(stored, "assistant", TurnAnswer, db) IN
         IF r.raised
         THEN /\ api_pc' = "aborted"
              /\ UNCHANGED <<stored, writes>>
         ELSE /\ stored' = r.rows
              /\ writes' = writes + 1
              /\ api_pc' = StageAfter(api_pc, mode)
    /\ UNCHANGED <<query, history, turns, search, endpoint, mode, message, conv_id, events, cursor,
                   rag_vars, agent_vars, chunk_vars>>

\* line 150: the sources event of a RAG turn
StreamEmitSources ==
    /\ api_pc = "emit_sources"
    /\ events' = Append(events, [type |-> "sources", tool |-> "", args |-> << >>,
                                 content |-> << >>])
    /\ api_pc' = StageAfter(api_pc, mode)
    /\ UNCHANGED <<query, history, turns, search, endpoint, mode, message, conv_id, stored, writes,
                   cursor, rag_vars, agent_vars, chunk_vars>>

\* lines 139 and 151: the done marker
StreamEmitDone ==
    /\ api_pc = "emit_done"
    /\ events' = Append(events, [type |-> "done", tool |-> "", args |-> << >>,
                                 content |-> << >>])
    /\ api_pc' = StageAfter(api_pc, mode)
    /\ UNCHANGED <<query, history, turns, search, endpoint, mode, message, conv_id, stored, writes,
                   cursor, rag_vars, agent_vars, chunk_vars>>

-----------------------------------------------------------------------------
(* Cancellation of the request task *)

\* exceptions an await of the turn may raise
CANCELLED_ERROR == "CancelledError"

\* a faulty variant of CaughtByExceptException: a bare `except:`
CaughtByExceptException_bare(exc) == TRUE

\* `except Exception` (agent_runner.py line 86, agent_tools.py line 267, chat.py
\* lines 77 and 136): asyncio.CancelledError derives from BaseException and is
\* not caught
CaughtByExceptException(exc) == exc # CANCELLED_ERROR

\* the request task is cancelled while run_agent awaits client.post (line 83):
\* the await raises CancelledError inside the try of lines 82-89
AgentCancelledInGatewayCall ==
    /\ agent_pc = "await_llm"
    /\ reply' = [kind |-> "cancelled", content |-> << >>]
    /\ responses_ok' = FALSE
    /\ IF CaughtByExceptException(CANCELLED_ERROR)
       THEN /\ final_answer' = AGENT_LLM_FAILED_ANSWER
            /\ agent_result' = ReturnValue(AGENT_LLM_FAILED_ANSWER, tool_log)
            /\ agent_pc' = "llm_failed"
            /\ UNCHANGED api_pc
       ELSE /\ agent_pc' = "cancelled"
            /\ api_pc' = IF api_pc = "in_turn" THEN "cancelled" ELSE api_pc
            /\ UNCHANGED <<final_answer, agent_result>>
    /\ UNCHANGED <<query, history, messages, tool_log, iteration, pending, llm_calls,
                   tool_runs, deviations, handler_outcome, rag_vars, chunk_vars,
                   turns, search, endpoint, mode, message, conv_id, stored, writes, events, cursor>>

\* the request task is cancelled while execute_tool awaits handler(arguments)
\* (agent_tools.py line 265), itself awaited at agent_runner.py line 106
AgentCancelledInToolExecution ==
    /\ agent_pc = "await_tool"
    /\ pending # << >>
    /\ LET tc     == Head(pending)
           parsed == ParseArguments(tc.function.arguments)
       IN  /\ ~parsed.raised
           /\ tc.function.name \in HANDLERS
           /\ handler_outcome' = "cancelled"
           /\ tool_runs' = tool_runs + 1
           /\ IF CaughtByExceptException(CANCELLED_ERROR)
              THEN /\ tool_log' = Append(tool_log,
                          [iteration      |-> iteration,
                           tool           |-> tc.function.name,
                           arguments      |-> parsed.args,
                           result_preview |-> ResultPreview(HandlerError)])
                   /\ messages' = Append(messages,
                          [role |-> "tool", content |-> HandlerError,
                           tool_calls |-> << >>, tool_call_id |-> tc.id])
                   /\ pending' = Tail(pending)
                   /\ IF Tail(pending) = << >>
                      THEN iteration' = iteration + 1 /\ agent_pc' = "loop_head"
                      ELSE iteration' = iteration /\ agent_pc' = "await_tool"
                   /\ UNCHANGED api_pc
              ELSE /\ agent_pc' = "cancelled"
                   /\ api_pc' = IF api_pc = "in_turn" THEN "cancelled" ELSE api_pc
                   /\ UNCHANGED <<tool_log, messages, pending, iteration>>
    /\ UNCHANGED <<query, history, final_answer, agent_result, llm_calls, deviations,
                   responses_ok, reply, rag_vars, chunk_vars,
                   turns, search, endpoint, mode, message, conv_id, stored, writes, events, cursor>>

-----------------------------------------------------------------------------
(* Turns running concurrently: the availability check of run_rag *)

\* the turns that share the process, and so the module variable _llm_available
ConcTurns == {1, 2}

NewTurn == [pc |-> "call_check", probe |-> "none", returned |-> "None",
            global_at_use |-> "None"]

\* llm_service.py lines 51-55: the turn sends its probe and is suspended
TurnSendsProbe(t) ==
    /\ turns[t].pc = "call_check"
    /\ turns' = [turns EXCEPT ![t].pc = "await_probe"]
    /\ UNCHANGED llm_available

\* lines 56-61: the probe of turn t is answered; _llm_available is assigned and
\* returned without an await in between
TurnProbeAnswers(t) ==
    /\ turns[t].pc = "await_probe"
    /\ \E probe \in Probes :
         /\ llm_available' = check_available(probe)
         /\ turns' = [turns EXCEPT ![t].pc = "checked",
                                   ![t].probe = probe,
                                   ![t].returned = llm_available']

\* a faulty variant of AvailabilitySeenBy: run_rag reads the module variable
\* instead of the returned value
AvailabilitySeenBy_module_variable(turn, global) == global

\* rag_pipeline.py line 47: run_rag tests the value check_available returned
AvailabilitySeenBy(turn, global) == turn.returned

\* lines 47-54: the turn returns the fixed answer or goes on to the retrieval
TurnBranches(t) ==
    /\ turns[t].pc = "checked"
    /\ turns' = [turns EXCEPT
                   ![t].pc = IF ReturnsEarly(AvailabilitySeenBy(turns[t], llm_available))
                             THEN "returned_unavailable" ELSE "vector_search",
                   ![t].global_at_use = llm_available]
    /\ UNCHANGED llm_available

\* embedding_service.py line 181: semantic_search probes again for the turn
TurnSearchSendsProbe(t) ==
    /\ turns[t].pc = "vector_search"
    /\ turns' = [turns EXCEPT ![t].pc = "await_search_probe"]
    /\ UNCHANGED llm_available

\* the probe of semantic_search is answered and overwrites _llm_available
TurnSearchProbeAnswers(t) ==
    /\ turns[t].pc = "await_search_probe"
    /\ \E probe \in Probes : llm_available' = check_available(probe)
    /\ turns' = [turns EXCEPT ![t].pc = "retrieved"]

TurnStep(t) ==
    \/ TurnSendsProbe(t)
    \/ TurnProbeAnswers(t)
    \/ TurnBranches(t)
    \/ TurnSearchSendsProbe(t)
    \/ TurnSearchProbeAnswers(t)

-----------------------------------------------------------------------------
(* api/search.py: GET /search *)

\* hit.get("content", "")[:300]
SEARCH_CONTENT_LEN == 300

SearchModes == {"vector", "metadata", "hybrid"}

NoResponse == [results |-> << >>, total |-> 0, message |-> "None"]

NoSearch == [pc |-> "idle", mode |-> "none", top_k |-> 0, vector_hits |-> << >>,
             meta_hits |-> << >>, results |-> << >>, merged |-> << >>,
             response |-> NoResponse]

\* lines 53-62
SearchVectorLoop(hits) ==
    [i \in 1..Len(hits) |->
        [entity_id  |-> hits[i].entity_id,
         title      |-> hits[i].title,
         content    |-> PySliceTo(hits[i].content, SEARCH_CONTENT_LEN),
         source     |-> hits[i].source,
         match_type |-> "vector"]]

\* lines 84-103: the rows of search.py's own _metadata_search
SearchMetadataRows(outcome, ranking, nulls) == _metadata_search(outcome, ranking, nulls)

\* a faulty variant of SearchMetaHit: the test against seen_ids dropped
SearchMetaHit_no_dedup(acc, seen, hit) ==
    IF acc.raised THEN acc
    ELSE IF hit.content = None THEN [acc EXCEPT !.raised = TRUE]
    ELSE [acc EXCEPT !.results =
              Append(@, [entity_id  |-> hit.id,
                         title      |-> hit.title,
                         content    |-> PySliceTo(hit.content, SEARCH_CONTENT_LEN),
                         source     |-> hit.source,
                         match_type |-> "metadata"])]

\* lines 68-76: one pass of the loop; a row whose content is NULL has the key
\* "content" with the value None, and None[:300] raises TypeError
SearchMetaHit(acc, seen, hit) ==
    IF acc.raised \/ hit.id \in seen THEN acc
    ELSE IF hit.content = None THEN [acc EXCEPT !.raised = TRUE]
    ELSE [acc EXCEPT !.results =
              Append(@, [entity_id  |-> hit.id,
                         title      |-> hit.title,
                         content    |-> PySliceTo(hit.content, SEARCH_CONTENT_LEN),
                         source     |-> hit.source,
                         match_type |-> "metadata"])]

RECURSIVE SearchMetaLoopFrom(_, _, _, _)
SearchMetaLoopFrom(acc, seen, hits, i) ==
    IF i > Len(hits) THEN acc
    ELSE SearchMetaLoopFrom(SearchMetaHit(acc, seen, hits[i]), seen, hits, i + 1)

\* lines 66-76: seen_ids is computed once, before the loop
SearchMetaLoop(res, hits) ==
    SearchMetaLoopFrom([raised |-> FALSE, results |-> res],
                       { res[j].entity_id : j \in 1..Len(res) }, hits, 1)

\* line 113: the sum of 1/(k + rank + 1) over the ranks at which eid occurs
RECURSIVE RrfScoreFrom(_, _, _)
RrfScoreFrom(res, eid, rank) ==
    IF rank >= Len(res) THEN [num |-> 0, den |-> 1]
    ELSE LET rest == RrfScoreFrom(res, eid, rank + 1)
         IN  IF res[rank + 1].entity_id = eid THEN ScoreAdd(RRFScore(rank), rest)
                                               ELSE rest

\* the positions of `results` at which an entity_id occurs for the first time:
\* the keys of `scores` and `result_map` in insertion order
FirstOccurrences(res) ==
    SelectSeq([i \in 1..Len(res) |-> i],
              LAMBDA i : \A j \in 1..(i - 1) : res[j].entity_id # res[i].entity_id)

\* lines 108-117: the entries of `scores` with their items, sorted by descending
\* score (sorted is stable)
RrfSorted(res) ==
    LET firsts == FirstOccurrences(res)
    IN  SortByScore([n \in 1..Len(firsts) |->
                        [entity_id |-> res[firsts[n]].entity_id,
                         score     |-> RrfScoreFrom(res, res[firsts[n]].entity_id, 0),
                         item      |-> res[firsts[n]]]])

\* lines 106-118
_rrf_merge(res, k) ==
    LET sorted == PySliceTo(RrfSorted(res), k)
    IN  [n \in 1..Len(sorted) |-> sorted[n].item]

\* line 81
SearchResponse(res, k, note) ==
    [results |-> PySliceTo(res, k), total |-> Len(res), message |-> note]

\* lines 42-62: semantic_search has answered or raised; in vector mode the
\* response follows at once
SearchVectorAnswers ==
    /\ search.pc = "await_vector"
    /\ \E outcome \in {"llm_unavailable", "embedding_failed", "raised", "ok"} :
       \E ranking \in IF outcome = "ok" THEN RankedLists(Entities, search.top_k)
                                        ELSE { << >> } :
         LET r       == semantic_search(outcome, ranking, null_content)
             hits    == IF r.raised THEN << >> ELSE r.hits
             res     == SearchVectorLoop(hits)
             note    == IF r.raised THEN "vector search unavailable" ELSE "None"
         IN  search' =
               IF search.mode = "vector"
               THEN [search EXCEPT !.pc = "responded", !.vector_hits = hits,
                                   !.results = res,
                                   !.response = SearchResponse(res, search.top_k, note)]
               ELSE [search EXCEPT !.pc = "await_metadata", !.vector_hits = hits,
                                   !.results = res,
                                   !.response = [NoResponse EXCEPT !.message = note]]
    /\ UNCHANGED <<query, history, rag_vars, agent_vars, chunk_vars, api_vars, turns>>

\* lines 64-81: _metadata_search has answered or raised (it is not inside a try);
\* the lexical hits are appended, the list is merged in hybrid mode and returned
SearchMetadataAnswers ==
    /\ search.pc = "await_metadata"
    /\ \E outcome \in {"raised", "ok"} :
       \E ranking \in IF outcome = "ok" THEN RankedLists(Entities, search.top_k)
                                        ELSE { << >> } :
         LET rows == SearchMetadataRows(outcome, ranking, null_content)
             loop == SearchMetaLoop(search.results, rows.hits)
             res  == IF search.mode = "hybrid"
                     THEN _rrf_merge(loop.results, search.top_k)
                     ELSE loop.results
         IN  search' =
               IF rows.raised \/ loop.raised
               THEN [search EXCEPT !.pc = "raised", !.meta_hits = rows.hits]
               ELSE [search EXCEPT
                        !.pc = "responded", !.meta_hits = rows.hits,
                        !.results = res,
                        !.merged = IF search.mode = "hybrid"
                                   THEN RrfSorted(loop.results) ELSE << >>,
                        !.response = SearchResponse(res, search.top_k,
                                                    search.response.message)]
    /\ UNCHANGED <<query, history, rag_vars, agent_vars, chunk_vars, api_vars, turns>>

-----------------------------------------------------------------------------
(* Specifications *)

NoResult == [answer |-> None, tool_calls |-> << >>, iterations |-> 0]

RagIdle ==
    /\ top_k = 0 /\ null_content = {} /\ llm_available = "None"
    /\ rag_pc = "idle" /\ ctx = NewContext(<< >>)
    /\ vector_hits = << >> /\ meta_hits = << >> /\ results = << >> /\ fused = << >>
    /\ calls = NoCalls /\ source_outcome = NoOutcome /\ llm_reply = NoReply

AgentIdle ==
    /\ agent_pc = "idle" /\ messages = << >> /\ tool_log = << >>
    /\ final_answer = << >> /\ iteration = 0 /\ pending = << >>
    /\ agent_result = NoResult /\ llm_calls = 0 /\ tool_runs = 0 /\ deviations = 0
    /\ responses_ok = TRUE /\ handler_outcome = "none" /\ reply = NoAgentReply

ChunkIdle == chunk_pc = "idle" /\ text = << >> /\ chunks = << >>

\* no search request is in progress
SearchIdle == search = NoSearch

\* no concurrent turns are modelled
ConcIdle == turns = << >>

ApiIdle ==
    /\ endpoint = "none" /\ mode = "none" /\ message = << >> /\ conv_id = "None"
    /\ stored = << >> /\ writes = 0
    /\ api_pc = "idle" /\ events = << >> /\ cursor = 0

\* a RAG turn: run_rag(query, history, top_k) has built its context
InitRag ==
    /\ query \in Queries
    /\ history \in { HistoryOf(n) : n \in 0..MaxRagHistory }
    /\ top_k \in 0..MaxTopK
    /\ null_content \in SUBSET NullableEntities
    /\ llm_available = "None"
    /\ rag_pc = "check_available"
    /\ ctx = NewContext(query)
    /\ vector_hits = << >> /\ meta_hits = << >> /\ results = << >> /\ fused = << >>
    /\ calls = NoCalls /\ source_outcome = NoOutcome /\ llm_reply = NoReply
    /\ AgentIdle /\ ChunkIdle /\ ApiIdle /\ ConcIdle /\ SearchIdle

NextRag ==
    \/ RagCheckAvailable
    \/ RagRewriteQuery
    \/ RagVectorSearch
    \/ RagMetadataSearch
    \/ RagGraphRetrieve
    \/ RagGenerateAnswer

SpecRag == InitRag /\ [][NextRag]_vars

\* an agent turn: run_agent(query, history) has seeded its transcript
InitAgent ==
    /\ query \in Queries
    /\ history \in AgentHistories
    /\ agent_pc = "loop_head"
    /\ messages = SeedTranscript(query, history)
    /\ tool_log = << >> /\ final_answer = << >> /\ iteration = 0 /\ pending = << >>
    /\ agent_result = NoResult /\ llm_calls = 0 /\ tool_runs = 0 /\ deviations = 0
    /\ responses_ok = TRUE /\ handler_outcome = "none" /\ reply = NoAgentReply
    /\ RagIdle /\ ChunkIdle /\ ApiIdle /\ ConcIdle /\ SearchIdle

NextAgent ==
    \/ AgentLoopHead
    \/ AgentLLMResponds
    \/ AgentExecuteTool

SpecAgent == InitAgent /\ [][NextAgent]_vars

\* The event loop resumes run_agent whenever the call it awaits has answered; the
\* completion request carries timeout=60.0, so it answers or fails.
FairSpecAgent == SpecAgent /\ WF_vars(NextAgent)

\* an agent turn whose dependencies may stay silent: a silent gateway ends in the
\* timeout of the request (LLMRequestFails), a silent handler in "blocked_in_tool"
NextAgentUnresponsive ==
    \/ AgentLoopHead
    \/ AgentLLMResponds
    \/ AgentExecuteToolUnresponsive

SpecAgentUnresponsive == InitAgent /\ [][NextAgentUnresponsive]_vars

\* an agent turn with a model that requests the same unknown tool every time
NextUnknownTool ==
    \/ AgentLoopHead
    \/ AgentLLMRequestsUnknownTool
    \/ AgentExecuteTool

SpecUnknownTool == InitAgent /\ [][NextUnknownTool]_vars

\* as FairSpecAgent: the awaited calls answer (the tool is not in the registry, so
\* execute_tool returns without awaiting anything)
FairSpecUnknownTool == SpecUnknownTool /\ WF_vars(NextUnknownTool)

\* a request of POST /send or POST /send/stream has arrived
InitChat ==
    /\ endpoint \in {"send", "stream"}
    /\ mode \in {"rag", "agent"}
    /\ message \in ChatMessages
    /\ \/ conv_id = "None" /\ stored = << >>
       \/ conv_id = "c1" /\ stored = HistoryOf(2)
    /\ writes = 0 /\ api_pc = "received" /\ events = << >> /\ cursor = 0
    /\ query = << >> /\ history = << >>
    /\ top_k = 0 /\ llm_available = "None"
    /\ null_content \in (IF mode = "rag" THEN SUBSET NullableEntities ELSE { {} })
    /\ rag_pc = "idle" /\ ctx = NewContext(<< >>)
    /\ vector_hits = << >> /\ meta_hits = << >> /\ results = << >> /\ fused = << >>
    /\ calls = NoCalls /\ source_outcome = NoOutcome /\ llm_reply = NoReply
    /\ AgentIdle /\ ChunkIdle /\ ConcIdle /\ SearchIdle

NextChat ==
    \/ ChatAcceptRequest
    \/ StreamStart
    \/ ChatCallTurn
    \/ NextRag
    \/ NextAgent
    \/ ChatSendRespond
    \/ StreamTurnRaised
    \/ StreamAdvance
    \/ StreamEmitToolCall
    \/ StreamEmitToken
    \/ StreamPersist
    \/ StreamEmitSources
    \/ StreamEmitDone

SpecChat == InitChat /\ [][NextChat]_vars

\* an agent-mode request whose task may be cancelled while the turn awaits the
\* gateway or a tool
InitChatCancel == InitChat /\ mode = "agent"

NextChatCancel ==
    \/ ChatAcceptRequest
    \/ StreamStart
    \/ ChatCallTurn
    \/ NextAgent
    \/ AgentCancelledInGatewayCall
    \/ AgentCancelledInToolExecution
    \/ ChatSendRespond
    \/ StreamTurnRaised
    \/ StreamAdvance
    \/ StreamEmitToolCall
    \/ StreamEmitToken
    \/ StreamPersist
    \/ StreamEmitDone

SpecChatCancel == InitChatCancel /\ [][NextChatCancel]_vars

\* two turns have called run_rag; _llm_available holds what an earlier turn left
InitConcurrent ==
    /\ turns = [t \in ConcTurns |-> NewTurn]
    /\ llm_available \in {"None", "True", "False"}
    /\ query = << >> /\ history = << >>
    /\ top_k = 0 /\ null_content = {}
    /\ rag_pc = "idle" /\ ctx = NewContext(<< >>)
    /\ vector_hits = << >> /\ meta_hits = << >> /\ results = << >> /\ fused = << >>
    /\ calls = NoCalls /\ source_outcome = NoOutcome /\ llm_reply = NoReply
    /\ AgentIdle /\ ChunkIdle /\ ApiIdle /\ SearchIdle

NextConcurrent ==
    /\ \E t \in ConcTurns : TurnStep(t)
    /\ UNCHANGED <<query, history, top_k, null_content, rag_pc, ctx, vector_hits,
                   meta_hits, results, fused, calls, source_outcome, llm_reply,
                   agent_vars, chunk_vars, api_vars, search>>

SpecConcurrent == InitConcurrent /\ [][NextConcurrent]_vars

\* a request GET /search?q=...&top_k=...&mode=... has arrived
InitSearch ==
    /\ \E m \in SearchModes, k \in 1..MaxTopK :
         search = [NoSearch EXCEPT
                     !.pc = IF m = "metadata" THEN "await_metadata" ELSE "await_vector",
                     !.mode = m, !.top_k = k]
    /\ null_content \in SUBSET NullableEntities
    /\ query = << >> /\ history = << >>
    /\ top_k = 0 /\ llm_available = "None"
    /\ rag_pc = "idle" /\ ctx = NewContext(<< >>)
    /\ vector_hits = << >> /\ meta_hits = << >> /\ results = << >> /\ fused = << >>
    /\ calls = NoCalls /\ source_outcome = NoOutcome /\ llm_reply = NoReply
    /\ AgentIdle /\ ChunkIdle /\ ApiIdle /\ ConcIdle

NextSearch ==
    \/ SearchVectorAnswers
    \/ SearchMetadataAnswers

SpecSearch == InitSearch /\ [][NextSearch]_vars

\* a call of _split_into_chunks(text, 20)
InitChunks ==
    /\ query = << >> /\ history = << >>
    /\ text \in Texts /\ chunk_pc = "input" /\ chunks = << >>
    /\ RagIdle /\ AgentIdle /\ ApiIdle /\ ConcIdle /\ SearchIdle

NextChunks == SplitIntoChunks

SpecChunks == InitChunks /\ [][NextChunks]_vars

-----------------------------------------------------------------------------
(* Properties of run_agent *)


\* C1: whatever the model responds (a final text or a non-empty list of tool calls
\* each time), run_agent makes at most MAX_ITERATIONS = 8 completion calls and
\* terminates, in done (a response without tool calls) or in exhausted (8 responses
\* with tool calls); it does not loop for ever.
C1_AgentTerminates ==
    /\ [](llm_calls <= MAX_ITERATIONS)
    /\ <>AgentTerminated
    /\ []((AgentTerminated /\ responses_ok) => agent_pc \in {"done", "exhausted"})
    /\ [](agent_pc = "exhausted" =>
            /\ llm_calls = MAX_ITERATIONS
            /\ Cardinality({ i \in 1..Len(messages) : messages[i].tool_calls # << >> })
                 = MAX_ITERATIONS
            /\ agent_result.answer = EXHAUSTED_ANSWER)

\* eight responses with tool calls in a row have exhausted the loop
C1_Witness ==
    /\ agent_pc = "exhausted" /\ responses_ok
    /\ llm_calls = MAX_ITERATIONS /\ Len(tool_log) >= MAX_ITERATIONS

\* C2: when the handler of a tool call raises, run_agent goes on: the error payload
\* of execute_tool is appended as the tool message of that call, a tool_log entry
\* with the iteration is recorded, the remaining calls of the response are executed
\* and control returns to the loop head, which sends the next completion request
\* as long as range(MAX_ITERATIONS) is not used up.
C2_ToolFailureIsolated ==
    [][ /\ (agent_pc = "await_tool" /\ tool_runs' = tool_runs + 1
                /\ handler_outcome' = "raise") =>
             LET tc == Head(pending) IN
             /\ agent_pc' # "raised"
             /\ messages' = Append(messages,
                                   [role |-> "tool", content |-> HandlerError,
                                    tool_calls |-> << >>, tool_call_id |-> tc.id])
             /\ IsErrorPayload(messages'[Len(messages')].content)
             /\ Len(tool_log') = Len(tool_log) + 1
             /\ tool_log'[Len(tool_log')].iteration = iteration
             /\ tool_log'[Len(tool_log')].tool = tc.function.name
             /\ tool_log'[Len(tool_log')].result_preview = HandlerError
             /\ pending' = Tail(pending)
             /\ IF Len(pending) > 1
                THEN agent_pc' = "await_tool" /\ iteration' = iteration
                ELSE agent_pc' = "loop_head" /\ iteration' = iteration + 1
        /\ (agent_pc = "loop_head" /\ iteration < MAX_ITERATIONS) =>
             (agent_pc' = "await_llm" /\ llm_calls' = llm_calls + 1)
      ]_vars

\* the handler of the last call raised, its error payload ends the transcript and
\* the log, and the next completion request has been sent
C2_Witness ==
    /\ agent_pc = "await_llm" /\ handler_outcome = "raise"
    /\ llm_calls >= 2
    /\ messages[Len(messages)].role = "tool"
    /\ messages[Len(messages)].content = HandlerError
    /\ tool_log # << >>
    /\ tool_log[Len(tool_log)].result_preview = HandlerError
    /\ tool_log[Len(tool_log)].iteration = llm_calls - 2

ToolMessages == { i \in 1..Len(messages) : messages[i].role = "tool" }

\* C11: with a model that requests the same unknown tool name in every response,
\* run_agent never invokes a handler of the registry, every tool message is the
\* structured unknown-tool error, each of the 8 iterations appends one (per
\* requested call), and the run ends at the iteration cap with the exhausted
\* answer, without raising.
C11_UnknownToolRunsToTheCap ==
    /\ [](handler_outcome \in {"none", "no_handler"})
    /\ [](\A i \in ToolMessages :
             /\ messages[i].content = UnknownToolError(UNKNOWN_TOOL)
             /\ IsErrorPayload(messages[i].content))
    /\ [](agent_pc # "raised")
    /\ <>(agent_pc = "exhausted")
    /\ [](AgentTerminated =>
             /\ agent_pc = "exhausted"
             /\ agent_result.answer = EXHAUSTED_ANSWER
             /\ llm_calls = MAX_ITERATIONS
             /\ Cardinality(ToolMessages) = tool_runs
             /\ Len(tool_log) = tool_runs
             /\ \A it \in 0..(MAX_ITERATIONS - 1) :
                   \E j \in 1..Len(tool_log) :
                       /\ tool_log[j].iteration = it
                       /\ tool_log[j].tool = UNKNOWN_TOOL
                       /\ IsErrorPayload(tool_log[j].result_preview))

\* the loop is exhausted after 8 responses, one of which requested the tool twice
C11_Witness ==
    /\ agent_pc = "exhausted" /\ handler_outcome = "no_handler"
    /\ llm_calls = MAX_ITERATIONS /\ tool_runs = MAX_ITERATIONS + 1
    /\ agent_result.answer = EXHAUSTED_ANSWER

\* C15: a tool call whose argument payload is malformed does not abort the turn:
\* the payload degrades to the empty argument set {}, the tool is executed with it,
\* and the loop goes on with the tool message of that call.
C15_MalformedArgumentsDegrade ==
    [][ (agent_pc = "await_tool"
            /\ Head(pending).function.arguments # WellFormedArgs) =>
          /\ agent_pc' # "raised"
          /\ tool_runs' = tool_runs + 1
          /\ Len(tool_log') = Len(tool_log) + 1
          /\ tool_log'[Len(tool_log')].arguments = << >>
          /\ messages' # messages
          /\ messages'[Len(messages')].role = "tool"
          /\ messages'[Len(messages')].tool_call_id = Head(pending).id
      ]_vars

\* C16: whatever the gateway returns and whichever dependency fails, the answer
\* of the result the turn returns is a non-empty string (an explanatory or a
\* generated text), never an empty response.
C16_AnswerNeverEmpty ==
    AgentReturned =>
        /\ agent_result.answer # << >>
        /\ agent_result.answer # None

\* C18: no unresponsive dependency stalls the turn for ever: as long as the turn
\* has not completed, a step of it is still to come (the answer of the awaited
\* call, or the timeout that turns its silence into a recoverable failure).
C18_NoIndefiniteStall == AgentTerminated \/ ENABLED NextAgentUnresponsive

ToolCallResponses == { i \in 1..Len(messages) : messages[i].tool_calls # << >> }

\* C20: the answer of run_agent is the text of the first model response without
\* tool calls (every response before it carried tool calls), run_agent returns on
\* it without a further gateway call or tool execution, and when all 8 responses
\* carry tool calls the answer is the fixed exhaustion message.
C20_FirstFinalResponseIsTheAnswer ==
    /\ [][ (agent_pc = "await_llm" /\ reply'.kind = "final") =>
              /\ agent_pc' = "done"
              /\ agent_result'.answer = reply'.content
              /\ Cardinality(ToolCallResponses) = llm_calls - 1
              /\ llm_calls' = llm_calls /\ tool_runs' = tool_runs
          ]_vars
    /\ [](agent_pc = "done" =>
             /\ reply.kind = "final" /\ agent_result.answer = reply.content
             /\ pending = << >>
             /\ ~ENABLED NextAgent)
    /\ [](agent_pc = "exhausted" =>
             /\ Cardinality(ToolCallResponses) = MAX_ITERATIONS
             /\ llm_calls = MAX_ITERATIONS
             /\ agent_result.answer = EXHAUSTED_ANSWER)

\* the third response was the first without tool calls; its text is the answer
C20_Witness ==
    /\ agent_pc = "done" /\ llm_calls = 3 /\ tool_runs >= 2
    /\ reply = [kind |-> "final", content |-> LongAnswer]
    /\ agent_result.answer = LongAnswer

\* the transcript is well-formed: every message with tool calls is an assistant
\* message followed by one tool message per call, in the order of the calls, each
\* with the id of its call, and every tool message answers such a call
WellFormedTranscript(msgs) ==
    LET responses == { i \in 1..Len(msgs) : msgs[i].tool_calls # << >> }
    IN  /\ \A i \in responses :
             LET tcs == msgs[i].tool_calls IN
             /\ msgs[i].role = "assistant"
             /\ i + Len(tcs) <= Len(msgs)
             /\ \A k \in 1..Len(tcs) :
                  /\ msgs[i + k].role = "tool"
                  /\ msgs[i + k].tool_call_id = tcs[k].id
             /\ i + Len(tcs) < Len(msgs) => msgs[i + Len(tcs) + 1].role # "tool"
        /\ \A j \in 1..Len(msgs) :
             msgs[j].role = "tool" =>
                 \E i \in responses : i < j /\ j <= i + Len(msgs[i].tool_calls)

\* C21: whenever run_agent sends a completion request the transcript is
\* well-formed and no requested call is left unexecuted; a response with tool calls
\* is appended as it came, as the last message of the transcript.
C21_TranscriptWellFormed ==
    [][ /\ agent_pc' = "await_llm" =>
             /\ WellFormedTranscript(messages')
             /\ pending' = << >>
        /\ (agent_pc = "await_llm" /\ reply'.kind = "tool_calls") =>
             /\ Len(messages') = Len(messages) + 1
             /\ SubSeq(messages', 1, Len(messages)) = messages
             /\ messages'[Len(messages')].role = "assistant"
             /\ messages'[Len(messages')].tool_calls = pending'
             /\ messages'[Len(messages')].content = reply'.content
      ]_vars

\* the third completion request is sent after a response of two calls and a
\* response of one call have been answered
C21_Witness ==
    /\ agent_pc = "await_llm" /\ llm_calls = 3
    /\ \E i \in ToolCallResponses : Len(messages[i].tool_calls) = 2
    /\ Cardinality(ToolCallResponses) = 2
    /\ Cardinality(ToolMessages) = 3

\* C22: when the completion request of iteration i fails, run_agent does not raise:
\* it returns at once, without a further request or tool execution, the
\* explanatory failure answer and the tool log of the iterations before i, which
\* has one entry for each call executed so far.
C22_GatewayFailureEndsTheTurn ==
    /\ [][ (agent_pc = "await_llm" /\ reply'.kind = "failed") =>
              /\ agent_pc' = "llm_failed"
              /\ agent_result'.answer = AGENT_LLM_FAILED_ANSWER
              /\ agent_result'.answer # << >>
              /\ agent_result'.tool_calls = tool_log
              /\ tool_log' = tool_log /\ messages' = messages
              /\ Len(tool_log) = tool_runs
              /\ \A j \in 1..Len(tool_log) : tool_log[j].iteration < iteration
              /\ llm_calls = iteration + 1
              /\ llm_calls' = llm_calls /\ tool_runs' = tool_runs
          ]_vars
    /\ [](agent_pc = "llm_failed" =>
             /\ reply.kind = "failed"
             /\ ~ENABLED NextAgent)

\* the third completion request failed after two iterations with a tool call each
C22_Witness ==
    /\ agent_pc = "llm_failed" /\ llm_calls = 3 /\ iteration = 2
    /\ Len(agent_result.tool_calls) = 2
    /\ agent_result.tool_calls[2].iteration = 1
    /\ agent_result.answer = AGENT_LLM_FAILED_ANSWER

\* the tool messages of the transcript, in order
ToolMessageSeq == SelectSeq(messages, LAMBDA m : m.role = "tool")

\* the function name of the requested call with the id `id`
RequestedName(id) ==
    LET i == CHOOSE i \in ToolCallResponses :
                 \E k \in 1..Len(messages[i].tool_calls) :
                     messages[i].tool_calls[k].id = id
        k == CHOOSE k \in 1..Len(messages[i].tool_calls) :
                 messages[i].tool_calls[k].id = id
    IN  messages[i].tool_calls[k].function.name

\* C23: when run_agent has returned, the tool log has one entry per executed call,
\* in execution order: as many entries as the transcript has tool messages, the
\* j-th entry naming the tool of the j-th tool message's call; the iteration
\* indices do not decrease and lie in 0..7; each result_preview is the content of
\* the tool message of the same call cut to its first 500 characters.
C23_ToolLogMirrorsExecution ==
    AgentReturned =>
        LET log == agent_result.tool_calls
            tms == ToolMessageSeq
        IN  /\ log = tool_log
            /\ Len(log) = tool_runs
            /\ Len(log) = Len(tms)
            /\ \A j \in 1..Len(log) :
                 /\ log[j].tool = RequestedName(tms[j].tool_call_id)
                 /\ log[j].iteration = tms[j].tool_call_id[1]
                 /\ log[j].iteration \in 0..(MAX_ITERATIONS - 1)
                 /\ Len(log[j].result_preview) = Min(Len(tms[j].content), 500)
                 /\ log[j].result_preview =
                        SubSeq(tms[j].content, 1, Len(log[j].result_preview))
            /\ \A i, j \in 1..Len(log) : i < j => log[i].iteration <= log[j].iteration

\* a turn has returned with a log of three entries, one of them of a result
\* longer than 500 characters, cut in the log and whole in the transcript
C23_Witness ==
    /\ agent_pc = "done" /\ Len(agent_result.tool_calls) = 3
    /\ \E j \in 1..3 :
         /\ Len(ToolMessageSeq[j].content) = 501
         /\ Len(agent_result.tool_calls[j].result_preview) = 500
    /\ agent_result.tool_calls[3].iteration = 2

\* C24: the iterations value run_agent returns is the number of loop iterations
\* (completion requests) the turn performed, and so it never exceeds
\* MAX_ITERATIONS = 8.
C24_IterationsCountsModelCalls ==
    AgentReturned =>
        /\ agent_result.iterations = llm_calls
        /\ agent_result.iterations <= MAX_ITERATIONS

\* C25: at the first completion request the transcript is one system message,
\* then the last min(10, len(history)) turns of the history in their order, role
\* and content kept, then the new user message as the last element; run_agent
\* does not modify the history list it was given.
C25_TranscriptSeed ==
    /\ []((agent_pc = "await_llm" /\ llm_calls = 1) =>
            LET n == Min(10, Len(history)) IN
            /\ Len(messages) = n + 2
            /\ messages[1].role = "system"
            /\ messages[1].content = AGENT_SYSTEM_PROMPT
            /\ \A i \in 1..n :
                 /\ messages[1 + i].role = history[Len(history) - n + i].role
                 /\ messages[1 + i].content = history[Len(history) - n + i].content
            /\ messages[n + 2].role = "user"
            /\ messages[n + 2].content = query
            /\ \A i \in 1..(n + 2) :
                 messages[i].tool_calls = << >> /\ messages[i].tool_call_id = << >>)
    /\ [][history' = history]_vars

\* the first request of a turn started with a history of 12 turns
C25_Witness ==
    /\ agent_pc = "await_llm" /\ llm_calls = 1
    /\ Len(history) = 12 /\ Len(messages) = 12
    /\ messages[2].content = history[3].content

-----------------------------------------------------------------------------
(* Properties of _hybrid_retrieve *)

\* _hybrid_retrieve has returned into run_rag
HybridReturned == calls.lexical = 1

VectorIds  == [i \in 1..Len(vector_hits) |-> vector_hits[i].entity_id]
LexicalIds == [i \in 1..Len(meta_hits) |-> meta_hits[i].id]
FusedIds   == [i \in 1..Len(fused) |-> fused[i].entity_id]

InSeq(e, ids) == \E i \in 1..Len(ids) : ids[i] = e
\* zero-based position of the first occurrence of e in ids
RankIn(e, ids) == (CHOOSE i \in 1..Len(ids) : ids[i] = e /\ \A j \in 1..(i - 1) : ids[j] # e) - 1

\* the RRF score the two source rankings give an entity
ExpectedScore(e) ==
    IF InSeq(e, VectorIds) /\ InSeq(e, LexicalIds)
    THEN ScoreAdd(RRFScore(RankIn(e, VectorIds)), RRFScore(RankIn(e, LexicalIds)))
    ELSE IF InSeq(e, VectorIds) THEN RRFScore(RankIn(e, VectorIds))
         ELSE RRFScore(RankIn(e, LexicalIds))

\* C3: for every top_k >= 0 and every pair of source rankings, the sequence
\* _hybrid_retrieve returns has at most top_k elements.
C3_AtMostTopK == HybridReturned => Len(ctx.results) <= top_k

\* the fusion produced more than top_k > 0 hits and the slice cut them to top_k
C3_Witness ==
    HybridReturned /\ top_k > 0 /\ Len(fused) > top_k /\ Len(ctx.results) = top_k

\* C4: no entity_id occurs more than once in the sequence _hybrid_retrieve returns.
C4_UniqueEntityIds ==
    HybridReturned =>
        \A i, j \in 1..Len(ctx.results) :
            i # j => ctx.results[i].entity_id # ctx.results[j].entity_id

\* an entity both sources returned is in the returned sequence
C4_Witness ==
    /\ HybridReturned
    /\ \E i \in 1..Len(ctx.results) :
          /\ InSeq(ctx.results[i].entity_id, VectorIds)
          /\ InSeq(ctx.results[i].entity_id, LexicalIds)
    /\ Len(ctx.results) >= 2

\* C5: the fused score of an entity is the sum, over the sources that returned it,
\* of 1/(60 + r + 1) for its zero-based rank r in that source; an entity of both
\* sources is recorded once, with the match kind and fields of the vector hit; the
\* hits are exactly the entities the sources returned, in descending score order,
\* and the returned sequence is the first top_k of them.
C5_FusedScores ==
    HybridReturned =>
        /\ \A i \in 1..Len(fused) :
              LET r == fused[i] IN
              /\ ScoreEq(r.score, ExpectedScore(r.entity_id))
              /\ r.match_type = IF InSeq(r.entity_id, VectorIds) THEN "vector"
                                                                 ELSE "metadata"
              /\ r.content = IF InSeq(r.entity_id, VectorIds)
                             THEN vector_hits[RankIn(r.entity_id, VectorIds) + 1].content
                             ELSE meta_hits[RankIn(r.entity_id, LexicalIds) + 1].content
        /\ { fused[i].entity_id : i \in 1..Len(fused) }
              = { VectorIds[i] : i \in 1..Len(VectorIds) }
                  \cup { LexicalIds[i] : i \in 1..Len(LexicalIds) }
        /\ Len(fused) = Cardinality({ fused[i].entity_id : i \in 1..Len(fused) })
        /\ \A i, j \in 1..Len(fused) : i < j => ScoreGe(fused[i].score, fused[j].score)
        /\ ctx.results = SubSeq(fused, 1, Min(top_k, Len(fused)))

\* the example of the specification: vector = [e1], lexical = [e1, e2] gives
\* [e1 with 1/61 + 1/61, e2 with 1/62]
C5_Witness ==
    /\ HybridReturned
    /\ VectorIds = <<"e1">> /\ LexicalIds = <<"e1", "e2">>
    /\ FusedIds = <<"e1", "e2">>
    /\ ScoreEq(fused[1].score, [num |-> 2, den |-> 61])
    /\ ScoreEq(fused[2].score, [num |-> 1, den |-> 62])
    /\ fused[1].match_type = "vector" /\ fused[2].match_type = "metadata"

InBoth(e) == InSeq(e, VectorIds) /\ InSeq(e, LexicalIds)

\* x is ranked strictly above e by at least one source
RankedAboveBySome(x, e) ==
    \/ InSeq(x, VectorIds) /\ RankIn(x, VectorIds) < RankIn(e, VectorIds)
    \/ InSeq(x, LexicalIds) /\ RankIn(x, LexicalIds) < RankIn(e, LexicalIds)

\* C6 as stated: an entity found by both sources has a fused position (before the
\* truncation) at or above its best single-source rank: position <= min(vector
\* rank, lexical rank).
C6_Original ==
    HybridReturned =>
        \A e \in Entities :
            InBoth(e) =>
                RankIn(e, FusedIds) <= Min(RankIn(e, VectorIds), RankIn(e, LexicalIds))

\* C6 amended: an entity found by both sources is placed before every entity that
\* no source ranks above it, so that its fused position (before the truncation) is
\* at most its vector rank plus its lexical rank.
C6_Amended ==
    HybridReturned =>
        \A e \in Entities :
            InBoth(e) =>
                /\ \A x \in Entities \ {e} :
                      (InSeq(x, FusedIds) /\ ~RankedAboveBySome(x, e))
                          => RankIn(e, FusedIds) < RankIn(x, FusedIds)
                /\ RankIn(e, FusedIds) <= RankIn(e, VectorIds) + RankIn(e, LexicalIds)

\* an entity of both sources sits below its best single-source rank, at exactly
\* vector rank + lexical rank
C6_Witness ==
    /\ HybridReturned
    /\ \E e \in Entities :
          /\ InBoth(e)
          /\ RankIn(e, FusedIds) > Min(RankIn(e, VectorIds), RankIn(e, LexicalIds))
          /\ RankIn(e, FusedIds) = RankIn(e, VectorIds) + RankIn(e, LexicalIds)
          /\ RankIn(e, FusedIds) = 2

\* C12: in _hybrid_retrieve a source that fails or is unavailable contributes no
\* hit and does not abort the retrieval: the stage after it runs, the hits of the
\* other source are fused and returned (in that source's order, cut to top_k), and
\* when neither source gives a hit the result is the empty sequence.
C12_SourcesIsolated ==
    /\ (calls.vector = 1 /\ calls.lexical = 0) => rag_pc = "metadata_search"
    /\ (HybridReturned /\ calls.graph = 0) => rag_pc = "graph_retrieve"
    /\ HybridReturned =>
          /\ source_outcome.vector # "ok" =>
                /\ \A i \in 1..Len(fused) : fused[i].match_type = "metadata"
                /\ FusedIds = LexicalIds
                /\ \A i \in 1..Len(fused) : ScoreEq(fused[i].score, RRFScore(i - 1))
          /\ source_outcome.lexical # "ok" =>
                /\ \A i \in 1..Len(fused) : fused[i].match_type = "vector"
                /\ FusedIds = VectorIds
                /\ \A i \in 1..Len(fused) : ScoreEq(fused[i].score, RRFScore(i - 1))
          /\ (source_outcome.vector # "ok" /\ source_outcome.lexical # "ok") =>
                ctx.results = << >>
          /\ (VectorIds = << >> /\ LexicalIds = << >>) => ctx.results = << >>
          /\ ctx.results = SubSeq(fused, 1, Min(top_k, Len(fused)))

\* the lexical store raised after the vector index had returned hits, and the
\* vector hits were returned
C12_Witness ==
    /\ HybridReturned
    /\ source_outcome.vector = "ok" /\ source_outcome.lexical = "raised"
    /\ Len(VectorIds) >= 2 /\ Len(ctx.results) >= 2
    /\ rag_pc = "returned"

\* x was appended to `results` before y: the vector hits in vector order, then
\* the hits of the lexical source only in lexical order
DiscoveredBefore(x, y) ==
    IF InSeq(x, VectorIds)
    THEN InSeq(y, VectorIds) => RankIn(x, VectorIds) < RankIn(y, VectorIds)
    ELSE /\ ~InSeq(y, VectorIds)
         /\ RankIn(x, LexicalIds) < RankIn(y, LexicalIds)

\* C26: the descending sort of _hybrid_retrieve is stable: hits of equal fused
\* score keep their discovery order in the sorted list and in the returned one.
C26_TiesKeepDiscoveryOrder ==
    HybridReturned =>
        /\ \A i, j \in 1..Len(fused) :
              (i < j /\ ScoreEq(fused[i].score, fused[j].score))
                  => DiscoveredBefore(fused[i].entity_id, fused[j].entity_id)
        /\ \A i, j \in 1..Len(ctx.results) :
              (i < j /\ ScoreEq(ctx.results[i].score, ctx.results[j].score))
                  => DiscoveredBefore(ctx.results[i].entity_id,
                                      ctx.results[j].entity_id)

\* e3 and e1 were found by both sources at swapped ranks, so that both have the
\* score 1/61 + 1/62: e3, the first vector hit, stays first
C26_Witness ==
    /\ HybridReturned
    /\ VectorIds = <<"e3", "e1">> /\ LexicalIds = <<"e1", "e3", "e2">>
    /\ FusedIds = <<"e3", "e1", "e2">>
    /\ ScoreEq(fused[1].score, fused[2].score)
    /\ Len(ctx.results) >= 2

-----------------------------------------------------------------------------
(* Properties of _split_into_chunks *)

\* C7: with the chunk size 20, concatenating the chunks in order gives the answer
\* back, and the empty answer is split into exactly one chunk, the empty string.
C7_ChunksRoundTrip ==
    chunk_pc = "split" =>
        /\ Join(chunks) = text
        /\ (text = << >> => chunks = << << >> >>)
        /\ Len(chunks) >= 1

\* an answer of more than two chunks whose last chunk is shorter than 20
C7_Witness ==
    /\ chunk_pc = "split"
    /\ Len(chunks) = 3
    /\ Len(chunks[1]) = CHUNK_SIZE /\ Len(chunks[2]) = CHUNK_SIZE
    /\ Len(chunks[3]) \in 1..(CHUNK_SIZE - 1)
    /\ chunks[1] # chunks[2]

-----------------------------------------------------------------------------
(* Properties of run_rag *)

\* C8: with an empty history the rewritten query is the raw query, for every query,
\* and the gateway receives no rewrite call.
C8_RewriteIdentityOnEmptyHistory ==
    history = << >> => (ctx.rewritten_query = query /\ calls.rewrite = 0)

\* a turn with an empty history went through retrieval and generation
C8_Witness ==
    /\ history = << >> /\ rag_pc = "returned"
    /\ calls.vector = 1 /\ calls.generate = 1
    /\ ctx.rewritten_query = query

\* C9: in every RAGContext run_rag returns, sources has the length and order of
\* results, sources[i] carries index i + 1 and the entity_id of results[i]
\* (sequences are 1-based here, so the index is the position); no source is cited
\* that was not retrieved.
C9_SourcesMirrorResults ==
    rag_pc = "returned" =>
        /\ Len(ctx.sources) = Len(ctx.results)
        /\ \A i \in 1..Len(ctx.sources) :
              /\ ctx.sources[i].index = i
              /\ ctx.sources[i].entity_id = ctx.results[i].entity_id
        /\ \A i \in 1..Len(ctx.sources) :
              \E j \in 1..Len(ctx.results) :
                  ctx.results[j].entity_id = ctx.sources[i].entity_id

\* a context returned with several sources, after a gateway failure in generation
C9_Witness ==
    /\ rag_pc = "returned"
    /\ Len(ctx.sources) >= 2
    /\ ctx.answer = GENERATION_FAILED_ANSWER

\* the sources a returned context must carry for its results
MirrorOf(res) ==
    [i \in 1..Len(res) |->
        [index |-> i, entity_id |-> res[i].entity_id, title |-> res[i].title,
         source |-> res[i].source]]

\* C13: when the completion call of the answer generation fails, run_rag returns
\* (it does not raise): the answer is the locally built explanatory message, the
\* sources are those computed from the retrieved results, and results,
\* rewritten_query, graph_context and query are what they were before the call.
C13_GenerationFailureKeepsSources ==
    [][ (rag_pc = "generate_answer" /\ calls'.generate = calls.generate + 1
            /\ ~llm_reply'.ok) =>
          /\ rag_pc' = "returned"
          /\ ctx'.answer = GENERATION_FAILED_ANSWER
          /\ ctx'.answer # << >>
          /\ ctx'.sources = MirrorOf(ctx.results)
          /\ ctx'.results = ctx.results
          /\ ctx'.rewritten_query = ctx.rewritten_query
          /\ ctx'.graph_context = ctx.graph_context
          /\ ctx'.query = ctx.query
      ]_vars

\* a context returned after a failed completion call, with sources, a graph
\* context and a rewritten query
C13_Witness ==
    /\ rag_pc = "returned" /\ calls.generate = 1 /\ ~llm_reply.ok
    /\ ctx.answer = GENERATION_FAILED_ANSWER
    /\ Len(ctx.sources) = top_k /\ top_k >= 2
    /\ ctx.graph_context = GRAPH_CONTEXT
    /\ ctx.rewritten_query # query

AllSpaces(n) == [i \in 1..n |-> " "]

\* t is c without its leading and trailing blanks
IsTrimOf(t, c) ==
    /\ t # << >> /\ ~IsSpace(t[1]) /\ ~IsSpace(t[Len(t)])
    /\ \E a, b \in 0..Len(c) : c = AllSpaces(a) \o t \o AllSpaces(b)

\* C14: called with a non-empty history, the query rewriter does not raise: when
\* the completion call fails or its response is blank (or null) the raw query is
\* returned, otherwise the response without leading and trailing blanks; so a
\* non-empty query gives a non-empty rewritten query.
C14_RewriterFallsBack ==
    [][ rag_pc = "rewrite_query" =>
          LET r   == llm_reply'
              out == ctx'.rewritten_query
          IN  /\ history # << >>
              /\ rag_pc' = "vector_search"
              /\ calls'.rewrite = calls.rewrite + 1
              /\ IF r.ok /\ r.content # None
                       /\ \E i \in 1..Len(r.content) : ~IsSpace(r.content[i])
                 THEN IsTrimOf(out, r.content)
                 ELSE out = query
              /\ (query # << >> => out # << >>)
      ]_vars

\* the gateway answered the rewrite prompt with a padded text, which was trimmed
C14_Witness ==
    /\ calls.rewrite = 1 /\ rag_pc = "vector_search"
    /\ llm_reply = [ok |-> TRUE, content |-> <<" ", "r", " ">>]
    /\ ctx.rewritten_query = <<"r">>
    /\ history # << >>

\* C10: when the availability check returns false, run_rag returns at once: the
\* context has the fixed service-unavailable answer, no results, no sources, the raw
\* query as rewritten_query, and no rewrite, retrieval, graph or generation call is
\* made, then or later.
C10_UnavailableReturnsFixedAnswer ==
    [][ /\ (rag_pc = "check_available" /\ llm_available' = "False") =>
             /\ rag_pc' = "returned"
             /\ ctx' = [NewContext(query) EXCEPT !.answer = LLM_UNAVAILABLE_ANSWER]
             /\ ctx'.results = << >> /\ ctx'.sources = << >>
             /\ ctx'.rewritten_query = query
             /\ calls' = [NoCalls EXCEPT !.available = 1]
        /\ rag_pc # "returned"
      ]_vars

\* a turn has returned on a failed availability check, with a history
C10_Witness ==
    /\ rag_pc = "returned" /\ llm_available = "False"
    /\ calls = [NoCalls EXCEPT !.available = 1]
    /\ history # << >>
    /\ ctx.answer = LLM_UNAVAILABLE_ANSWER

-----------------------------------------------------------------------------
(* Properties of the chat API *)

\* C17: a request whose message is empty is rejected before any conversation
\* write, retrieval call or gateway call: nothing is inserted, no collaborator of
\* run_rag is called and no completion is requested for it.
C17_EmptyMessageRejected ==
    message = << >> =>
        /\ writes = 0
        /\ calls = NoCalls
        /\ llm_calls = 0

EventsOfType(t) == SelectSeq(events, LAMBDA e : e.type = t)

\* the place of an event type in the order of the stream
StageRank(t) ==
    CASE t = "start"     -> 0
      [] t = "tool_call" -> 1
      [] t = "token"     -> 2
      [] t = "sources"   -> 3
      [] OTHER           -> 4

TokenText == Join([k \in 1..Len(EventsOfType("token")) |->
                      EventsOfType("token")[k].content])

AnswerText == IF TurnAnswer = None THEN << >> ELSE TurnAnswer

\* C19: the events of send_message_stream come in a fixed order: the start event
\* first and once, then the tool_call events (agent mode only) in the order of the
\* tool log, then the token events whose chunks concatenate to the answer in
\* order, and the done marker last. No tool_call event follows a token event and
\* no event follows done.
C19_StreamEventOrder ==
    endpoint = "stream" =>
        LET tcs  == EventsOfType("tool_call")
            toks == EventsOfType("token")
            n    == Len(events)
        IN  /\ n > 0 => events[1].type = "start"
            /\ Len(EventsOfType("start")) <= 1
            /\ Len(EventsOfType("done")) <= 1
            /\ \A i, j \in 1..n :
                 i < j => StageRank(events[i].type) <= StageRank(events[j].type)
            /\ \A i \in 1..n : events[i].type = "done" => i = n
            /\ mode = "rag" => tcs = << >>
            /\ mode = "agent" =>
                 /\ Len(tcs) <= Len(tool_log)
                 /\ \A k \in 1..Len(tcs) :
                      /\ tcs[k].tool = tool_log[k].tool
                      /\ tcs[k].args = tool_log[k].arguments
                 /\ toks # << >> => Len(tcs) = Len(tool_log)
            /\ toks # << >> =>
                 /\ Len(TokenText) <= Len(AnswerText)
                 /\ TokenText = SubSeq(AnswerText, 1, Len(TokenText))
            /\ EventsOfType("done") # << >> => TokenText = AnswerText
            /\ api_pc = "closed" => (n > 0 /\ events[n].type = "done")

\* an agent stream has closed after two tool_call events and the three token
\* events of a long answer
C19_Witness ==
    /\ endpoint = "stream" /\ mode = "agent" /\ api_pc = "closed"
    /\ Len(EventsOfType("tool_call")) = 2
    /\ Len(EventsOfType("token")) = 3
    /\ events[Len(events)].type = "done"

\* C27: a stream that has emitted its start event emits at least one token event
\* and then the done marker, in RAG and in agent mode, whatever the answer is and
\* whichever dependency fails during the turn: when event_stream has ended, the
\* stream holds a token event and ends with done.
C27_StreamEndsWithDone ==
    (endpoint = "stream" /\ api_pc \in {"closed", "aborted"}) =>
        /\ EventsOfType("token") # << >>
        /\ events[Len(events)].type = "done"

\* the request was cancelled during an await of the agent turn
Cancelled == reply.kind = "cancelled" \/ handler_outcome = "cancelled"

\* C28: a cancellation that arrives while a gateway call or a tool execution of
\* an agent turn is in flight is not swallowed: the turn and the request end with
\* it, and from then on no gateway call, tool execution, tool_log append or stream
\* event happens for that turn.
C28_CancellationNotSwallowed ==
    /\ [][ (Cancelled' /\ ~Cancelled) =>
              /\ agent_pc' = "cancelled" /\ api_pc' = "cancelled"
              /\ llm_calls' = llm_calls
              /\ tool_log' = tool_log /\ messages' = messages
              /\ events' = events
          ]_vars
    /\ [][ Cancelled =>
              /\ llm_calls' = llm_calls /\ tool_runs' = tool_runs
              /\ tool_log' = tool_log
              /\ events' = events /\ chunks' = chunks
          ]_vars
    /\ [](Cancelled => (agent_result = NoResult /\ ~ENABLED NextChatCancel))

\* a stream was cancelled while a tool of the second iteration was running: the
\* stream holds the start event only
C28_Witness ==
    /\ endpoint = "stream" /\ handler_outcome = "cancelled"
    /\ agent_pc = "cancelled" /\ api_pc = "cancelled"
    /\ llm_calls = 2 /\ tool_runs = 2 /\ Len(tool_log) = 1
    /\ Len(events) = 1

-----------------------------------------------------------------------------
(* Properties of concurrent turns *)

\* the turn has decided on its availability check
TurnDecided(t) ==
    turns[t].pc \in {"returned_unavailable", "vector_search", "await_search_probe",
                     "retrieved"}

\* C29: turns that run concurrently are independent: under every interleaving at
\* the await points, the value check_available returns to a turn is the outcome
\* of that turn's own probe, and the turn returns the fixed service-unavailable
\* answer exactly when its own probe failed, whatever the other turns have written
\* to _llm_available in the meantime.
C29_TurnsIndependent ==
    \A t \in ConcTurns :
        /\ turns[t].pc = "checked" =>
               turns[t].returned = (IF turns[t].probe = "200" THEN "True" ELSE "False")
        /\ TurnDecided(t) =>
               /\ turns[t].returned = (IF turns[t].probe = "200" THEN "True"
                                                                  ELSE "False")
               /\ (turns[t].pc = "returned_unavailable") <=> (turns[t].probe # "200")

\* turn 1 went on to the retrieval on its own successful probe although, when it
\* was resumed, another turn had set _llm_available to False
C29_Witness ==
    /\ turns[1].pc = "vector_search" /\ turns[1].probe = "200"
    /\ turns[1].global_at_use = "False"
    /\ turns[2].pc = "returned_unavailable"

-----------------------------------------------------------------------------
(* Properties of GET /search *)

SearchVectorIds  == [i \in 1..Len(search.vector_hits) |-> search.vector_hits[i].entity_id]
SearchLexicalIds == [i \in 1..Len(search.meta_hits) |-> search.meta_hits[i].id]
ResponseIds ==
    [i \in 1..Len(search.response.results) |-> search.response.results[i].entity_id]

\* the vector hits in vector order, then the lexical hits no vector hit has, in
\* lexical order
Concatenated ==
    SearchVectorIds \o SelectSeq(SearchLexicalIds, LAMBDA e : ~InSeq(e, SearchVectorIds))

\* C30: in hybrid mode of /search with vector hits of distinct entity_ids,
\* _rrf_merge sums no two scores and reorders nothing: the score of each entity is
\* 1/(60 + p + 1) for its position p in the concatenated list, and the response is
\* the vector hits in vector order followed by the lexical-only hits in lexical
\* order, cut to top_k, with distinct entity_ids and total equal to the number of
\* results returned.
C30_HybridSearchKeepsOrder ==
    (search.pc = "responded" /\ search.mode = "hybrid") =>
        /\ Len(search.merged) = Len(Concatenated)
        /\ \A p \in 1..Len(search.merged) :
             /\ search.merged[p].entity_id = Concatenated[p]
             /\ ScoreEq(search.merged[p].score, [num |-> 1, den |-> 60 + p])
        /\ ResponseIds = SubSeq(Concatenated, 1, Min(search.top_k, Len(Concatenated)))
        /\ \A i, j \in 1..Len(ResponseIds) : i # j => ResponseIds[i] # ResponseIds[j]
        /\ \A i \in 1..Len(ResponseIds) :
             search.response.results[i].match_type =
                 (IF InSeq(ResponseIds[i], SearchVectorIds) THEN "vector" ELSE "metadata")
        /\ search.response.total = Len(search.response.results)

\* the lexical source returned e2 again and e3: the duplicate was dropped, and the
\* three hits were cut to top_k = 2
C30_Witness ==
    /\ search.pc = "responded" /\ search.mode = "hybrid" /\ search.top_k = 2
    /\ SearchVectorIds = <<"e1", "e2">> /\ SearchLexicalIds = <<"e2", "e3">>
    /\ Len(search.merged) = 3
    /\ ResponseIds = <<"e1", "e2">>
    /\ search.response.total = 2

=============================================================================
